---- MODULE Spec2Model ----
(***************************************************************************)
(* Model of the workflow builder (steps.ts, workflows.ts) and of the       *)
(* static validator (validation.ts) of gcp-workflows-toolkit.              *)
(*                                                                         *)
(* Strings that the code inspects (step names, call targets, jump          *)
(* targets, workflow names, parameter names) are sequences of one          *)
(* character strings, so that includes('.') and join(', ') are computed.   *)
(* An optional field is <<>> when undefined and <<v>> when it holds v.     *)
(* A NamedWorkflowStep object is an index into namedSteps (its identity).  *)
(***************************************************************************)
EXTENDS Integers, Sequences, FiniteSets, TLC

VARIABLES namedSteps, subworkflows, app, outcome, pc

vars == <<namedSteps, subworkflows, app, outcome, pc>>

-----------------------------------------------------------------------------
(* Bounds of the model *)

MaxSteps == 2
MaxSubworkflows == 1
MaxDisabledSteps == 2
MaxDisabledSubworkflows == 2
MaxNameSteps == 2
MaxNameSubworkflows == 3
MaxJumpSteps == 2
MaxJumpSubworkflows == 1
MaxArgSteps == 2
MaxArgSubworkflows == 1
MaxOptSteps == 2
MaxOptSubworkflows == 1
MaxTwiceSteps == 2
MaxTwiceSubworkflows == 1
MaxOrderSteps == 3
MaxOrderSubworkflows == 1
MaxCondSteps == 2
MaxTravSteps == 3
MaxTravSubworkflows == 1
MaxSharedSteps == 2
MaxSharedList == 2
MaxDupSteps == 5
MaxDupNested == 2
MaxDupSubworkflows == 1
MaxFlatSteps == 3
MaxCalleeSteps == 2
MaxCalleeSubworkflows == 2
MaxNestSteps == 3
MaxParSteps == 3
MaxLastSteps == 2
MaxLastSubworkflows == 2
MaxParamSteps == 2
MaxParamSubworkflows == 2
MaxRenderSteps == 2
MaxRenderSubworkflows == 2
MaxAliasSteps == 2
MaxAliasList == 2
MaxAliasSubworkflows == 1
MaxRetrySteps == 2
MaxRetrySubworkflows == 1

-----------------------------------------------------------------------------
(* Strings and optional values *)

Undefined == <<>>
Some(v) == <<v>>
IsDefined(opt) == opt # <<>>
\* JavaScript truthiness of an optional string: undefined and '' are falsy
Truthy(opt) == opt # <<>> /\ opt[1] # <<>>

EmptyString == <<>>
end == <<"e", "n", "d">>
MainName == <<"m", "a", "i", "n">>

SeqRange(s) == {s[i] : i \in 1..Len(s)}
Includes(s, x) == \E i \in 1..Len(s) : s[i] = x

RECURSIVE Concat(_)
\* [].concat(...lists) / flatMap
Concat(lists) ==
  IF lists = <<>> THEN <<>> ELSE Head(lists) \o Concat(Tail(lists))

RECURSIVE Join(_, _)
\* Array.prototype.join: the elements separated by sep
Join(strs, sep) ==
  IF strs = <<>> THEN <<>>
  ELSE IF Len(strs) = 1 THEN strs[1]
  ELSE strs[1] \o sep \o Join(Tail(strs), sep)

\* JSON.stringify of an array of strings
JSONStringify(strs) ==
  <<"[">> \o Join([i \in 1..Len(strs) |-> <<"\"">> \o strs[i] \o <<"\"">>], <<",">>)
          \o <<"]">>

RECURSIVE SortedSeq(_)
\* the members of a set of object indices in creation order
SortedSeq(S) ==
  IF S = {} THEN <<>>
  ELSE LET m == CHOOSE x \in S : \A y \in S : x <= y
       IN <<m>> \o SortedSeq(S \ {m})

-----------------------------------------------------------------------------
(* Step model (steps.ts) *)

BlankStep ==
  [name |-> <<>>, class |-> "", call |-> <<>>, args |-> Undefined,
   conditions |-> <<>>, next |-> Undefined, trySteps |-> <<>>,
   exceptSteps |-> <<>>, steps |-> <<>>, branches |-> Undefined,
   forStep |-> Undefined]

AssignStep(name) == [BlankStep EXCEPT !.name = name, !.class = "AssignStep"]

CallStep(name, callTarget, args) ==
  [BlankStep EXCEPT !.name = name, !.class = "CallStep", !.call = callTarget,
                    !.args = args]

\* options is [next |-> opt] or [steps |-> list], or carries both keys
\* 'http.default_retry'
HttpDefaultRetry == <<"h", ".", "r">>

\* a CustomRetryPolicy object; the predicate is given with what typeof says of
\* it, "string" for a default policy and "object" for a Subworkflow
CustomRetryPolicy(predicate) ==
  [typeof |-> "object", predicate |-> predicate, maxRetries |-> 3]

SwitchCondition(options) ==
  IF "next" \in DOMAIN options
  THEN [next |-> options.next, steps |-> <<>>]
  ELSE [next |-> Undefined, steps |-> options.steps]

SwitchStep(name, conditions, next) ==
  [BlankStep EXCEPT !.name = name, !.class = "SwitchStep",
                    !.conditions = conditions, !.next = next]

TryExceptStep(name, steps, exceptSteps) ==
  [BlankStep EXCEPT !.name = name, !.class = "TryExceptStep",
                    !.trySteps = steps, !.exceptSteps = exceptSteps]

\* new TryExceptStep(steps, exceptSteps, retryPolicy): the retry policy is
\* the name of a default policy or a custom policy whose predicate is such a
\* name or a Subworkflow object
TryExceptStepWithRetry(name, steps, exceptSteps, retryPolicy) ==
  [f \in DOMAIN BlankStep \cup {"retryPolicy"} |->
     IF f = "retryPolicy" THEN retryPolicy
     ELSE TryExceptStep(name, steps, exceptSteps)[f]]

RaiseStep(name) == [BlankStep EXCEPT !.name = name, !.class = "RaiseStep"]

ForStep(name, steps) ==
  [BlankStep EXCEPT !.name = name, !.class = "ForStep", !.steps = steps]

StepsStep(name, steps) ==
  [BlankStep EXCEPT !.name = name, !.class = "StepsStep", !.steps = steps]

\* built from branches (forLoop = Undefined) or from a ForStep's body
Parallel(name, branches, forLoop) ==
  [BlankStep EXCEPT !.name = name, !.class = "Parallel",
                    !.branches = branches, !.forStep = forLoop]

ReturnStep(name) == [BlankStep EXCEPT !.name = name, !.class = "ReturnStep"]

\* faulty variant: a try/except step that forgets its except block
nestedSteps_tryOnly(x) ==
  LET s == namedSteps[x] IN
  CASE s.class = "SwitchStep" ->
         Concat([i \in 1..Len(s.conditions) |-> s.conditions[i].steps])
    [] s.class = "TryExceptStep" -> s.trySteps
    [] s.class = "ForStep" -> s.steps
    [] s.class = "StepsStep" -> s.steps
    [] s.class = "Parallel" ->
         (IF IsDefined(s.branches) THEN s.branches[1] ELSE <<>>)
           \o (IF IsDefined(s.forStep) THEN s.forStep[1] ELSE <<>>)
    [] OTHER -> <<>>

\* faulty variant: the except block comes before the try block
nestedSteps_exceptFirst(x) ==
  LET s == namedSteps[x] IN
  CASE s.class = "SwitchStep" ->
         Concat([i \in 1..Len(s.conditions) |-> s.conditions[i].steps])
    [] s.class = "TryExceptStep" -> s.exceptSteps \o s.trySteps
    [] s.class = "ForStep" -> s.steps
    [] s.class = "StepsStep" -> s.steps
    [] s.class = "Parallel" ->
         (IF IsDefined(s.branches) THEN s.branches[1] ELSE <<>>)
           \o (IF IsDefined(s.forStep) THEN s.forStep[1] ELSE <<>>)
    [] OTHER -> <<>>

\* faulty variant: a parallel step gives the steps held by its branches
\* instead of the branches
nestedSteps_branchBodies(x) ==
  LET s == namedSteps[x]
      held(b) == namedSteps[b].steps
  IN
  CASE s.class = "SwitchStep" ->
         Concat([i \in 1..Len(s.conditions) |-> s.conditions[i].steps])
    [] s.class = "TryExceptStep" -> s.trySteps \o s.exceptSteps
    [] s.class = "ForStep" -> s.steps
    [] s.class = "StepsStep" -> s.steps
    [] s.class = "Parallel" ->
         (IF IsDefined(s.branches)
          THEN Concat([i \in 1..Len(s.branches[1]) |-> held(s.branches[1][i])])
          ELSE <<>>)
           \o (IF IsDefined(s.forStep) THEN s.forStep[1] ELSE <<>>)
    [] OTHER -> <<>>

nestedSteps(x) ==
  LET s == namedSteps[x] IN
  CASE s.class = "SwitchStep" ->
         Concat([i \in 1..Len(s.conditions) |-> s.conditions[i].steps])
    [] s.class = "TryExceptStep" -> s.trySteps \o s.exceptSteps
    [] s.class = "ForStep" -> s.steps
    [] s.class = "StepsStep" -> s.steps
    [] s.class = "Parallel" ->
         (IF IsDefined(s.branches) THEN s.branches[1] ELSE <<>>)
           \o (IF IsDefined(s.forStep) THEN s.forStep[1] ELSE <<>>)
    [] OTHER -> <<>>

-----------------------------------------------------------------------------
(* Workflow containers (workflows.ts) *)

BaseWorkflow(name, steps, params) ==
  [name |-> name, steps |-> steps, params |-> params]

Subworkflow(name, steps, params) == BaseWorkflow(name, steps, params)

MainWorkflow(steps, argumentName) ==
  BaseWorkflow(MainName, steps,
               IF Truthy(argumentName)
               THEN Some(<<[name |-> argumentName[1], default |-> Undefined]>>)
               ELSE Undefined)

WorkflowApp(mainWorkflow, subs) ==
  [mainWorkflow |-> mainWorkflow, subworkflows |-> subs]

RECURSIVE renderSteps(_)
\* steps.map((x) => ({[x.name]: x.step.render()})), with the fields of the
\* step model
renderSteps(steps) ==
  [i \in 1..Len(steps) |->
     LET s == namedSteps[steps[i]] IN
     [name |-> s.name,
      step |->
        CASE s.class = "AssignStep" -> [assign |-> <<>>]
          [] s.class = "CallStep" -> [call |-> s.call, args |-> s.args]
          [] s.class = "SwitchStep" ->
               [switch |-> [k \in 1..Len(s.conditions) |->
                              [next |-> s.conditions[k].next,
                               steps |-> IF Len(s.conditions[k].steps) > 0
                                         THEN Some(renderSteps(s.conditions[k].steps))
                                         ELSE Undefined]],
                next |-> s.next]
          [] s.class = "TryExceptStep" ->
               [try |-> [steps |-> renderSteps(s.trySteps)],
                except |-> [steps |-> renderSteps(s.exceptSteps)]]
          [] s.class = "RaiseStep" -> [raise |-> <<>>]
          [] s.class = "ForStep" -> [for |-> [steps |-> renderSteps(s.steps)]]
          [] s.class = "StepsStep" -> [steps |-> renderSteps(s.steps)]
          [] s.class = "Parallel" ->
               [parallel |->
                  [branches |-> IF IsDefined(s.branches)
                                THEN Some(renderSteps(s.branches[1]))
                                ELSE Undefined,
                   for |-> IF IsDefined(s.forStep)
                           THEN Some([steps |-> renderSteps(s.forStep[1])])
                           ELSE Undefined]]
          [] OTHER -> [return |-> <<>>]]]

\* BaseWorkflow.renderBody: a parameter is written as a mapping from its
\* name to its default when x.default is truthy, and as its bare name
\* otherwise
renderBody(wf) ==
  [params |->
     IF IsDefined(wf.params)
     THEN Some([i \in 1..Len(wf.params[1]) |->
                  LET x == wf.params[1][i] IN
                  IF IsDefined(x.default) /\ ~x.default[1].falsy
                  THEN [name |-> x.name, default |-> x.default[1].json]
                  ELSE [name |-> x.name]])
     ELSE Undefined,
   steps |-> renderSteps(wf.steps)]

\* Map.prototype.set: the value of an existing key is replaced where the key
\* stands, a new key goes to the end
mapSet(merged, key, value) ==
  IF \E i \in 1..Len(merged) : merged[i].key = key
  THEN [i \in 1..Len(merged) |->
          IF merged[i].key = key THEN [key |-> key, value |-> value]
          ELSE merged[i]]
  ELSE Append(merged, [key |-> key, value |-> value])

RECURSIVE setEach(_, _, _)
setEach(merged, ws, i) ==
  IF i > Len(ws) THEN merged
  ELSE setEach(mapSet(merged, ws[i].name, renderBody(ws[i])), ws, i + 1)

\* faulty variant: the main workflow is written last
render_mainLast(a) ==
  setEach(<<>>, a.subworkflows \o <<a.mainWorkflow>>, 1)

\* WorkflowApp.render: the entries of the object, in the order of its keys
render(a) ==
  setEach(mapSet(<<>>, a.mainWorkflow.name, renderBody(a.mainWorkflow)),
          a.subworkflows, 1)

RECURSIVE visitPreOrder(_, _)
RECURSIVE visitEach(_, _, _)
visitEach(xs, i, st) ==
  IF i > Len(xs) THEN st
  ELSE visitEach(xs, i + 1, visitPreOrder(xs[i], st))

\* faulty variant: a step is yielded after its nested steps
visitPreOrder_postOrder(x, st) ==
  IF x \in st.visited THEN st
  ELSE LET after == visitEach(nestedSteps(x), 1,
                              [visited |-> st.visited \cup {x},
                               yielded |-> st.yielded])
       IN [visited |-> after.visited, yielded |-> Append(after.yielded, x)]

\* faulty variant: a step without nested steps is not added to visited
visitPreOrder_leavesUnmarked(x, st) ==
  IF x \in st.visited THEN st
  ELSE visitEach(nestedSteps(x), 1,
                 [visited |-> IF nestedSteps(x) = <<>> THEN st.visited
                              ELSE st.visited \cup {x},
                  yielded |-> Append(st.yielded, x)])

visitPreOrder(x, st) ==
  IF x \in st.visited THEN st
  ELSE visitEach(nestedSteps(x), 1,
                 [visited |-> st.visited \cup {x},
                  yielded |-> Append(st.yielded, x)])

\* faulty variant: the set of visited steps is emptied before every step of
\* the top-level list
iterateStepsDepthFirst_perTopLevel(wf) ==
  Concat([i \in 1..Len(wf.steps) |->
            visitPreOrder(wf.steps[i], [visited |-> {}, yielded |-> <<>>]).yielded])

\* the sequence of NamedWorkflowStep objects the generator yields
iterateStepsDepthFirst(wf) ==
  visitEach(wf.steps, 1, [visited |-> {}, yielded |-> <<>>]).yielded

-----------------------------------------------------------------------------
(* Validator (validation.ts) *)

WorkflowIssue(type, message) == [type |-> type, message |-> message]

Workflows(a) == <<a.mainWorkflow>> \o a.subworkflows

\* faulty variant: only the names of the top-level list are collected
StepNamesOf_topLevel(wf) ==
  [i \in 1..Len(wf.steps) |-> namedSteps[wf.steps[i]].name]

StepNamesOf(wf) ==
  LET ys == iterateStepsDepthFirst(wf)
  IN [i \in 1..Len(ys) |-> namedSteps[ys[i]].name]

RECURSIVE collectDuplicates(_, _, _, _)
\* the seen / duplicates loop; a Set keeps insertion order and no repeats
collectDuplicates(names, i, seen, duplicates) ==
  IF i > Len(names) THEN duplicates
  ELSE IF names[i] \in seen
       THEN collectDuplicates(names, i + 1, seen,
              IF Includes(duplicates, names[i]) THEN duplicates
              ELSE Append(duplicates, names[i]))
       ELSE collectDuplicates(names, i + 1, seen \cup {names[i]}, duplicates)

\* faulty variant: the duplicated names are listed in the order in which the
\* names were first seen
collectDuplicateStepName_firstSeenOrder(wf) ==
  LET names == StepNamesOf(wf)
      firsts == SelectSeq([i \in 1..Len(names) |-> <<i, names[i]>>],
                          LAMBDA e : \A j \in 1..(e[1] - 1) : names[j] # e[2])
      repeated == SelectSeq(firsts,
                            LAMBDA e : \E j \in (e[1] + 1)..Len(names) :
                                         names[j] = e[2])
  IN [i \in 1..Len(repeated) |-> repeated[i][2]]

collectDuplicateStepName(wf) == collectDuplicates(StepNamesOf(wf), 1, {}, <<>>)

\* faulty variant: the seen set is shared by all workflows instead of being
\* created for each of them
validateNoDuplicateStepNames_sharedSeen(a) ==
  LET duplicatesInMain == collectDuplicateStepName(a.mainWorkflow)
      mainIssues ==
        IF Len(duplicatesInMain) > 0
        THEN <<WorkflowIssue("duplicatedStepName",
                 <<"Duplicated step names in the main workflow: ">>
                   \o Join(duplicatesInMain, <<", ">>))>>
        ELSE <<>>
      subIssues(subworkflow) ==
        LET duplicatesInSub ==
              collectDuplicates(StepNamesOf(subworkflow), 1,
                                SeqRange(StepNamesOf(a.mainWorkflow)), <<>>)
        IN
        IF Len(duplicatesInSub) > 0
        THEN <<WorkflowIssue("duplicatedStepName",
                 <<"Duplicated step names in the subworkflow ">>
                   \o subworkflow.name \o <<": ">>
                   \o Join(duplicatesInSub, <<", ">>))>>
        ELSE <<>>
  IN mainIssues
       \o Concat([i \in 1..Len(a.subworkflows) |-> subIssues(a.subworkflows[i])])

validateNoDuplicateStepNames(a) ==
  LET duplicatesInMain == collectDuplicateStepName(a.mainWorkflow)
      mainIssues ==
        IF Len(duplicatesInMain) > 0
        THEN <<WorkflowIssue("duplicatedStepName",
                 <<"Duplicated step names in the main workflow: ">>
                   \o Join(duplicatesInMain, <<", ">>))>>
        ELSE <<>>
      subIssues(subworkflow) ==
        LET duplicatesInSub == collectDuplicateStepName(subworkflow) IN
        IF Len(duplicatesInSub) > 0
        THEN <<WorkflowIssue("duplicatedStepName",
                 <<"Duplicated step names in the subworkflow ">>
                   \o subworkflow.name \o <<": ">>
                   \o Join(duplicatesInSub, <<", ">>))>>
        ELSE <<>>
  IN mainIssues
       \o Concat([i \in 1..Len(a.subworkflows) |-> subIssues(a.subworkflows[i])])

RECURSIVE collectRepeats(_, _, _, _)
\* faulty variant of the loop: duplicates kept in an array, one entry a repeat
collectRepeats(names, i, seen, duplicates) ==
  IF i > Len(names) THEN duplicates
  ELSE IF names[i] \in seen
       THEN collectRepeats(names, i + 1, seen, Append(duplicates, names[i]))
       ELSE collectRepeats(names, i + 1, seen \cup {names[i]}, duplicates)

validateNoDuplicateSubworkflowNames_array(a) ==
  LET names == [i \in 1..Len(a.subworkflows) |-> a.subworkflows[i].name]
      dup == collectRepeats(names, 1, {}, <<>>)
  IN IF Len(dup) > 0
     THEN <<WorkflowIssue("duplicatedSubworkflowName",
              <<"Duplicated subworkflow names: ">> \o Join(dup, <<", ">>))>>
     ELSE <<>>

validateNoDuplicateSubworkflowNames(a) ==
  LET names == [i \in 1..Len(a.subworkflows) |-> a.subworkflows[i].name]
      dup == collectDuplicates(names, 1, {}, <<>>)
  IN IF Len(dup) > 0
     THEN <<WorkflowIssue("duplicatedSubworkflowName",
              <<"Duplicated subworkflow names: ">> \o Join(dup, <<", ">>))>>
     ELSE <<>>

\* faulty variant: an issue is pushed for every subworkflow with such a name
validateWorkflowNames_perSubworkflow(a) ==
  LET subs == a.subworkflows
  IN Concat([i \in 1..Len(subs) |->
               IF subs[i].name = MainName
               THEN <<WorkflowIssue("invalidWorkflowName",
                        <<"Subworkflow can't be called \"main\"">>)>>
               ELSE <<>>])
     \o
     Concat([i \in 1..Len(subs) |->
               IF subs[i].name = EmptyString
               THEN <<WorkflowIssue("invalidWorkflowName",
                        <<"Subworkflow must have a non-empty name">>)>>
               ELSE <<>>])

\* faulty variant: the issue of an empty name carries the type of another
\* check
validateWorkflowNames_otherType(a) ==
  LET names == [i \in 1..Len(a.subworkflows) |-> a.subworkflows[i].name]
  IN (IF \E i \in 1..Len(names) : names[i] = MainName
      THEN <<WorkflowIssue("invalidWorkflowName",
               <<"Subworkflow can't be called \"main\"">>)>>
      ELSE <<>>)
     \o
     (IF \E i \in 1..Len(names) : names[i] = EmptyString
      THEN <<WorkflowIssue("duplicatedSubworkflowName",
               <<"Subworkflow must have a non-empty name">>)>>
      ELSE <<>>)

\* faulty variant: the name of the main workflow is looked at as well
validateWorkflowNames_withMain(a) ==
  LET names == [i \in 1..Len(Workflows(a)) |-> Workflows(a)[i].name]
  IN (IF \E i \in 1..Len(names) : names[i] = MainName
      THEN <<WorkflowIssue("invalidWorkflowName",
               <<"Subworkflow can't be called \"main\"">>)>>
      ELSE <<>>)
     \o
     (IF \E i \in 1..Len(names) : names[i] = EmptyString
      THEN <<WorkflowIssue("invalidWorkflowName",
               <<"Subworkflow must have a non-empty name">>)>>
      ELSE <<>>)

validateWorkflowNames(a) ==
  LET names == [i \in 1..Len(a.subworkflows) |-> a.subworkflows[i].name]
  IN (IF \E i \in 1..Len(names) : names[i] = MainName
      THEN <<WorkflowIssue("invalidWorkflowName",
               <<"Subworkflow can't be called \"main\"">>)>>
      ELSE <<>>)
     \o
     (IF \E i \in 1..Len(names) : names[i] = EmptyString
      THEN <<WorkflowIssue("invalidWorkflowName",
               <<"Subworkflow must have a non-empty name">>)>>
      ELSE <<>>)

isRuntimeFunction(functionName) == Includes(functionName, ".")

\* faulty variant: "end" is accepted as a call target, as it is for next
validCallTarget_acceptsEnd(name, stepNames, subworkflowNames) ==
  \/ isRuntimeFunction(name)
  \/ Includes(stepNames, name)
  \/ Includes(subworkflowNames, name)
  \/ name = end

validCallTarget(name, stepNames, subworkflowNames) ==
  \/ isRuntimeFunction(name)
  \/ Includes(stepNames, name)
  \/ Includes(subworkflowNames, name)

\* faulty variant: "next: end" is not accepted
validNextTarget_noEnd(name, stepNames) == Includes(stepNames, name)

validNextTarget(name, stepNames) == Includes(stepNames, name) \/ name = end

CallTargetMessage(target, name) ==
  <<"Call target \"">> \o target \o <<"\" in step \"">> \o name
                       \o <<"\" not found">>

NextTargetMessage(target, name) ==
  <<"Next target \"">> \o target \o <<"\" in step \"">> \o name
                       \o <<"\" not found">>

\* faulty variant: the predicate of a custom retry policy is resolved like a
\* call target
jumpIssuesOfStep_retryPredicate(x, stepNames, subworkflowNames) ==
  LET step == namedSteps[x]
      name == step.name
  IN IF step.class = "CallStep"
     THEN IF ~validCallTarget(step.call, stepNames, subworkflowNames)
          THEN <<WorkflowIssue("missingJumpTarget",
                               CallTargetMessage(step.call, name))>>
          ELSE <<>>
     ELSE IF step.class = "SwitchStep"
     THEN (IF Truthy(step.next) /\ ~validNextTarget(step.next[1], stepNames)
           THEN <<WorkflowIssue("missingJumpTarget",
                                NextTargetMessage(step.next[1], name))>>
           ELSE <<>>)
          \o Concat([i \in 1..Len(step.conditions) |->
               LET cond == step.conditions[i] IN
               IF Truthy(cond.next) /\ ~validNextTarget(cond.next[1], stepNames)
               THEN <<WorkflowIssue("missingJumpTarget",
                                    NextTargetMessage(cond.next[1], name))>>
               ELSE <<>>])
     ELSE IF /\ "retryPolicy" \in DOMAIN step
             /\ step.retryPolicy.typeof = "object"
             /\ step.retryPolicy.predicate.typeof = "object"
             /\ ~validCallTarget(step.retryPolicy.predicate.value.name,
                                 stepNames, subworkflowNames)
     THEN <<WorkflowIssue("missingJumpTarget",
              CallTargetMessage(step.retryPolicy.predicate.value.name, name))>>
     ELSE <<>>

\* the issues the second loop of validateJumpTargetsInWorkflow pushes for one
\* yielded step
jumpIssuesOfStep(x, stepNames, subworkflowNames) ==
  LET step == namedSteps[x]
      name == step.name
  IN IF step.class = "CallStep"
     THEN IF ~validCallTarget(step.call, stepNames, subworkflowNames)
          THEN <<WorkflowIssue("missingJumpTarget",
                               CallTargetMessage(step.call, name))>>
          ELSE <<>>
     ELSE IF step.class = "SwitchStep"
     THEN (IF Truthy(step.next) /\ ~validNextTarget(step.next[1], stepNames)
           THEN <<WorkflowIssue("missingJumpTarget",
                                NextTargetMessage(step.next[1], name))>>
           ELSE <<>>)
          \o Concat([i \in 1..Len(step.conditions) |->
               LET cond == step.conditions[i] IN
               IF Truthy(cond.next) /\ ~validNextTarget(cond.next[1], stepNames)
               THEN <<WorkflowIssue("missingJumpTarget",
                                    NextTargetMessage(cond.next[1], name))>>
               ELSE <<>>])
     ELSE <<>>

validateJumpTargetsInWorkflow(workflow, subworkflowNames) ==
  LET stepNames == StepNamesOf(workflow)
      ys == iterateStepsDepthFirst(workflow)
  IN Concat([i \in 1..Len(ys) |->
               jumpIssuesOfStep(ys[i], stepNames, subworkflowNames)])

\* faulty variant: the issues of the subworkflows are put before those of the
\* main workflow
validateJumpTargets_subworkflowsFirst(a) ==
  LET subworkflowNames ==
        [i \in 1..Len(a.subworkflows) |-> a.subworkflows[i].name]
      issues == validateJumpTargetsInWorkflow(a.mainWorkflow, subworkflowNames)
      issuesSubWorflows ==
        Concat([i \in 1..Len(a.subworkflows) |->
                 validateJumpTargetsInWorkflow(a.subworkflows[i],
                                               subworkflowNames)])
  IN issuesSubWorflows \o issues

validateJumpTargets(a) ==
  LET subworkflowNames ==
        [i \in 1..Len(a.subworkflows) |-> a.subworkflows[i].name]
      issues == validateJumpTargetsInWorkflow(a.mainWorkflow, subworkflowNames)
      issuesSubWorflows ==
        Concat([i \in 1..Len(a.subworkflows) |->
                 validateJumpTargetsInWorkflow(a.subworkflows[i],
                                               subworkflowNames)])
  IN issues \o issuesSubWorflows

\* faulty variant: the test is !x.default, so that a falsy default does not
\* count as a default
requiredOf_falsy(sub) ==
  IF IsDefined(sub.params)
  THEN LET ps == SelectSeq(sub.params[1],
                           LAMBDA p : ~IsDefined(p.default) \/ p.default[1].falsy)
       IN [i \in 1..Len(ps) |-> ps[i].name]
  ELSE <<>>

\* x.params?.filter(...).map((x) => x.name) ?? []
requiredOf(sub) ==
  IF IsDefined(sub.params)
  THEN LET ps == SelectSeq(sub.params[1], LAMBDA p : ~IsDefined(p.default))
       IN [i \in 1..Len(ps) |-> ps[i].name]
  ELSE <<>>

optionalOf(sub) ==
  IF IsDefined(sub.params)
  THEN LET ps == SelectSeq(sub.params[1], LAMBDA p : IsDefined(p.default))
       IN [i \in 1..Len(ps) |-> ps[i].name]
  ELSE <<>>

\* faulty variant: the first entry with a key stays
paramsBySubworkflow_firstWins(a) ==
  LET subs == a.subworkflows
      first(n) == CHOOSE i \in 1..Len(subs) :
                    /\ subs[i].name = n
                    /\ \A j \in 1..Len(subs) : subs[j].name = n => i <= j
  IN [n \in {subs[i].name : i \in 1..Len(subs)} |->
        [required |-> requiredOf(subs[first(n)]),
         optional |-> optionalOf(subs[first(n)])]]

\* new Map(entries): a later entry replaces an earlier one with the same key
paramsBySubworkflow(a) ==
  LET subs == a.subworkflows
      last(n) == CHOOSE i \in 1..Len(subs) :
                   /\ subs[i].name = n
                   /\ \A j \in 1..Len(subs) : subs[j].name = n => j <= i
  IN [n \in {subs[i].name : i \in 1..Len(subs)} |->
        [required |-> requiredOf(subs[last(n)]),
         optional |-> optionalOf(subs[last(n)])]]

RequiredMessage(name, missing) ==
  <<"Required parameters not provided on call step \"">> \o name \o <<"\": ">>
    \o JSONStringify(missing)

ExtraMessage(name, extra) ==
  <<"Extra arguments provided on call step \"">> \o name \o <<"\": ">>
    \o JSONStringify(extra)

\* faulty variant: a supplied optional parameter counts as extraneous
callArgumentIssuesOfStep_requiredOnly(x, argumentBySubworkflowName) ==
  LET step == namedSteps[x]
      name == step.name
  IN IF step.class = "CallStep" /\ step.call \in DOMAIN argumentBySubworkflowName
     THEN LET requiredArgs == argumentBySubworkflowName[step.call].required
              optionalArgs == argumentBySubworkflowName[step.call].optional
              requiredAndOptionalArgs == requiredArgs \o optionalArgs
              providedArgs == IF IsDefined(step.args) THEN step.args[1] ELSE <<>>
              requiredButNotProvided ==
                SelectSeq(requiredArgs, LAMBDA y : ~Includes(providedArgs, y))
              providedButNotRequired ==
                SelectSeq(providedArgs,
                          LAMBDA y : ~Includes(requiredArgs, y))
          IN (IF Len(requiredButNotProvided) > 0
              THEN <<WorkflowIssue("wrongNumberOfCallArguments",
                       RequiredMessage(name, requiredButNotProvided))>>
              ELSE <<>>)
             \o
             (IF Len(providedButNotRequired) > 0
              THEN <<WorkflowIssue("wrongNumberOfCallArguments",
                       ExtraMessage(name, providedButNotRequired))>>
              ELSE <<>>)
     ELSE <<>>

\* faulty variant: a call of an unknown name is checked against no parameters
callArgumentIssuesOfStep_anyTarget(x, argumentBySubworkflowName) ==
  LET step == namedSteps[x]
      name == step.name
  IN IF step.class = "CallStep"
     THEN LET known == step.call \in DOMAIN argumentBySubworkflowName
              requiredArgs ==
                IF known THEN argumentBySubworkflowName[step.call].required
                ELSE <<>>
              optionalArgs ==
                IF known THEN argumentBySubworkflowName[step.call].optional
                ELSE <<>>
              requiredAndOptionalArgs == requiredArgs \o optionalArgs
              providedArgs == IF IsDefined(step.args) THEN step.args[1] ELSE <<>>
              requiredButNotProvided ==
                SelectSeq(requiredArgs, LAMBDA y : ~Includes(providedArgs, y))
              providedButNotRequired ==
                SelectSeq(providedArgs,
                          LAMBDA y : ~Includes(requiredAndOptionalArgs, y))
          IN (IF Len(requiredButNotProvided) > 0
              THEN <<WorkflowIssue("wrongNumberOfCallArguments",
                       RequiredMessage(name, requiredButNotProvided))>>
              ELSE <<>>)
             \o
             (IF Len(providedButNotRequired) > 0
              THEN <<WorkflowIssue("wrongNumberOfCallArguments",
                       ExtraMessage(name, providedButNotRequired))>>
              ELSE <<>>)
     ELSE <<>>

\* the issues findIssuesInCallArguments pushes for one yielded step
callArgumentIssuesOfStep(x, argumentBySubworkflowName) ==
  LET step == namedSteps[x]
      name == step.name
  IN IF step.class = "CallStep" /\ step.call \in DOMAIN argumentBySubworkflowName
     THEN LET requiredArgs == argumentBySubworkflowName[step.call].required
              optionalArgs == argumentBySubworkflowName[step.call].optional
              requiredAndOptionalArgs == requiredArgs \o optionalArgs
              providedArgs == IF IsDefined(step.args) THEN step.args[1] ELSE <<>>
              requiredButNotProvided ==
                SelectSeq(requiredArgs, LAMBDA y : ~Includes(providedArgs, y))
              providedButNotRequired ==
                SelectSeq(providedArgs,
                          LAMBDA y : ~Includes(requiredAndOptionalArgs, y))
          IN (IF Len(requiredButNotProvided) > 0
              THEN <<WorkflowIssue("wrongNumberOfCallArguments",
                       RequiredMessage(name, requiredButNotProvided))>>
              ELSE <<>>)
             \o
             (IF Len(providedButNotRequired) > 0
              THEN <<WorkflowIssue("wrongNumberOfCallArguments",
                       ExtraMessage(name, providedButNotRequired))>>
              ELSE <<>>)
     ELSE <<>>

findIssuesInCallArguments(wf, argumentBySubworkflowName) ==
  LET ys == iterateStepsDepthFirst(wf)
  IN Concat([i \in 1..Len(ys) |->
               callArgumentIssuesOfStep(ys[i], argumentBySubworkflowName)])

validateSubworkflowArguments(a) ==
  LET params == paramsBySubworkflow(a)
  IN findIssuesInCallArguments(a.mainWorkflow, params)
       \o Concat([i \in 1..Len(a.subworkflows) |->
                   findIssuesInCallArguments(a.subworkflows[i], params)])

\* the keys of the validators Map, in insertion order
validators ==
  <<"invalidWorkflowName", "duplicatedStepName", "duplicatedSubworkflowName",
    "missingJumpTarget", "wrongNumberOfCallArguments">>

runValidator(key, a) ==
  CASE key = "invalidWorkflowName" -> validateWorkflowNames(a)
    [] key = "duplicatedStepName" -> validateNoDuplicateStepNames(a)
    [] key = "duplicatedSubworkflowName" -> validateNoDuplicateSubworkflowNames(a)
    [] key = "missingJumpTarget" -> validateJumpTargets(a)
    [] key = "wrongNumberOfCallArguments" -> validateSubworkflowArguments(a)

\* faulty variant: only the first entry of the disabled list is honoured
enabledValidators_firstOnly(disabled) ==
  SelectSeq(validators,
            LAMBDA key : ~(Len(disabled) > 0 /\ disabled[1] = key))

\* validators.delete(dis) for every dis of disabled that is a key
enabledValidators(disabled) ==
  SelectSeq(validators, LAMBDA key : ~Includes(disabled, key))

RECURSIVE firstIssues(_, _, _)
firstIssues(keys, i, a) ==
  IF i > Len(keys) THEN <<>>
  ELSE IF runValidator(keys[i], a) # <<>> THEN runValidator(keys[i], a)
  ELSE firstIssues(keys, i + 1, a)

\* faulty variant: the loop stops at the first validator that finds issues
collectIssues_untilFirst(a, disabled) ==
  firstIssues(enabledValidators(disabled), 1, a)

collectIssues(a, disabled) ==
  LET keys == enabledValidators(disabled)
  IN Concat([i \in 1..Len(keys) |-> runValidator(keys[i], a)])

WorkflowValidationError(issues) ==
  [kind |-> "throw", name |-> "WorkflowValidationError", issues |-> issues]

ReturnsNormally == [kind |-> "return", name |-> "", issues |-> <<>>]

\* faulty variant: a single issue is not enough to throw
validate_needsTwo(a, disabled) ==
  LET issues == collectIssues(a, disabled)
  IN IF Len(issues) > 1 THEN WorkflowValidationError(issues)
     ELSE ReturnsNormally

validate(a, disabled) ==
  LET issues == collectIssues(a, disabled)
  IN IF Len(issues) > 0 THEN WorkflowValidationError(issues)
     ELSE ReturnsNormally

-----------------------------------------------------------------------------
(* Builder operations and the call of validate() *)

App == app[1]

\* the objects a step holds in its step lists, whatever its class
HeldBy(x) ==
  LET s == namedSteps[x] IN
  UNION {SeqRange(s.conditions[i].steps) : i \in 1..Len(s.conditions)}
    \cup SeqRange(s.trySteps) \cup SeqRange(s.exceptSteps) \cup SeqRange(s.steps)
    \cup (IF IsDefined(s.branches) THEN SeqRange(s.branches[1]) ELSE {})
    \cup (IF IsDefined(s.forStep) THEN SeqRange(s.forStep[1]) ELSE {})

\* the objects a list of the builder already holds
OwnedSteps ==
  UNION {HeldBy(x) : x \in 1..Len(namedSteps)}
    \cup UNION {SeqRange(subworkflows[i].steps) : i \in 1..Len(subworkflows)}

\* step objects not yet placed in a list: each object goes into one list
\* (the tree invariant of the step model)
FreeSteps == (1..Len(namedSteps)) \ OwnedSteps

\* the step objects are built first, then the workflows that hold them
CanAddStep(max) == pc = "steps" /\ Len(namedSteps) < max

Push(step) ==
  /\ namedSteps' = Append(namedSteps, step)
  /\ UNCHANGED <<subworkflows, app, outcome, pc>>

assign(max, names) ==
  /\ CanAddStep(max)
  /\ \E n \in names : Push(AssignStep(n))

\* inputs: records [name, call, args]
call(max, inputs) ==
  /\ CanAddStep(max)
  /\ \E c \in inputs : Push(CallStep(c.name, c.call, c.args))

\* inputs: records [name, next, conditions], a condition being the options
\* of condition(): [next |-> n], or [steps |-> <<>>] whose step list is
\* chosen among the free steps
switchStep(max, inputs) ==
  /\ CanAddStep(max)
  /\ \E c \in inputs :
       \E body \in [1..Len(c.conditions) -> SUBSET FreeSteps] :
         /\ \A i \in DOMAIN body :
              "steps" \notin DOMAIN c.conditions[i] => body[i] = {}
         /\ \A i, j \in DOMAIN body : i # j => body[i] \cap body[j] = {}
         /\ Push(SwitchStep(c.name,
                   [i \in 1..Len(c.conditions) |->
                      IF "steps" \in DOMAIN c.conditions[i]
                      THEN SwitchCondition(
                             [c.conditions[i] EXCEPT !.steps = SortedSeq(body[i])])
                      ELSE SwitchCondition(c.conditions[i])],
                   c.next))

\* condition(expression, options) called on its own: the options, what the
\* call did and the object it gave are kept in outcome; a steps list of the
\* options is chosen among the free steps
condition(optionSets) ==
  /\ pc = "steps"
  /\ \E options \in optionSets : \E S \in SUBSET FreeSteps :
       LET given == IF "steps" \in DOMAIN options
                    THEN [options EXCEPT !.steps = SortedSeq(S)]
                    ELSE options
       IN /\ "steps" \notin DOMAIN options => S = {}
          /\ outcome' = [result |-> [kind |-> "return", name |-> "SwitchCondition",
                                     issues |-> <<>>],
                         disabled |-> <<>>,
                         options |-> given,
                         value |-> SwitchCondition(given)]
  /\ UNCHANGED <<namedSteps, subworkflows, app, pc>>

\* call(name, {call: subworkflow, args}) with a Subworkflow object: the step
\* keeps the name of the object; inputs: records [name, args]
callSubworkflow(max, inputs) ==
  /\ CanAddStep(max)
  /\ \E c \in inputs : \E i \in 1..Len(subworkflows) :
       Push(CallStep(c.name, subworkflows[i].name, c.args))

tryExcept(max, names) ==
  /\ CanAddStep(max)
  /\ \E n \in names : \E S1 \in SUBSET FreeSteps : \E S2 \in SUBSET FreeSteps :
       /\ S1 \cap S2 = {}
       /\ Push(TryExceptStep(n, SortedSeq(S1), SortedSeq(S2)))

\* tryExcept(name, {steps, exceptSteps, retryPolicy}) with a default retry
\* policy, or with a custom one whose predicate is a default policy or one of
\* the Subworkflow objects
tryExceptRetry(max, names) ==
  /\ CanAddStep(max)
  /\ \E n \in names : \E S1 \in SUBSET FreeSteps : \E S2 \in SUBSET FreeSteps :
       /\ S1 \cap S2 = {}
       /\ \/ Push(TryExceptStepWithRetry(n, SortedSeq(S1), SortedSeq(S2),
                     [typeof |-> "string", value |-> HttpDefaultRetry]))
          \/ Push(TryExceptStepWithRetry(n, SortedSeq(S1), SortedSeq(S2),
                     CustomRetryPolicy([typeof |-> "string",
                                        value |-> HttpDefaultRetry])))
          \/ \E i \in 1..Len(subworkflows) :
               Push(TryExceptStepWithRetry(n, SortedSeq(S1), SortedSeq(S2),
                      CustomRetryPolicy([typeof |-> "object",
                                         value |-> subworkflows[i]])))

raise(max, names) ==
  /\ CanAddStep(max)
  /\ \E n \in names : Push(RaiseStep(n))

forStep(max, names) ==
  /\ CanAddStep(max)
  /\ \E n \in names : \E S \in SUBSET FreeSteps : Push(ForStep(n, SortedSeq(S)))

stepsStep(max, names) ==
  /\ CanAddStep(max)
  /\ \E n \in names : \E S \in SUBSET FreeSteps : Push(StepsStep(n, SortedSeq(S)))

parallel(max, names) ==
  /\ CanAddStep(max)
  /\ \E n \in names : \E S \in SUBSET FreeSteps :
       \/ Push(Parallel(n, Some(SortedSeq(S)), Undefined))
       \/ Push(Parallel(n, Undefined, Some(SortedSeq(S))))

returnStep(max, names) ==
  /\ CanAddStep(max)
  /\ \E n \in names : Push(ReturnStep(n))

\* inputs: records [name, params]
NewSubworkflow(max, inputs) ==
  /\ pc \in {"steps", "workflows"}
  /\ Len(subworkflows) < max
  /\ \E c \in inputs : \E S \in SUBSET FreeSteps :
       subworkflows' = Append(subworkflows,
                              Subworkflow(c.name, SortedSeq(S), c.params))
  /\ pc' = "workflows"
  /\ UNCHANGED <<namedSteps, app, outcome>>

\* a Subworkflow object without steps, built while steps are still being
\* built, so that call steps can be given the object
NewCallee(max, inputs) ==
  /\ pc = "steps"
  /\ Len(subworkflows) < max
  /\ \E c \in inputs :
       subworkflows' = Append(subworkflows, Subworkflow(c.name, <<>>, c.params))
  /\ UNCHANGED <<namedSteps, app, outcome, pc>>

\* new WorkflowApp(mainWorkflow, [...]) with some of the Subworkflow objects
\* that were built, in the order of their creation
NewWorkflowAppOf ==
  /\ pc \in {"steps", "workflows"}
  /\ \E keep \in SUBSET (1..Len(subworkflows)) :
       app' = Some(WorkflowApp(
                 MainWorkflow(SortedSeq(FreeSteps), Undefined),
                 [k \in 1..Cardinality(keep) |-> subworkflows[SortedSeq(keep)[k]]]))
  /\ pc' = "built"
  /\ UNCHANGED <<namedSteps, subworkflows, outcome>>

\* new WorkflowApp(new MainWorkflow(steps, argumentName), subworkflows): the
\* main workflow takes the steps that are in no other list
NewWorkflowApp(argumentNames) ==
  /\ pc \in {"steps", "workflows"}
  /\ \E arg \in argumentNames :
       app' = Some(WorkflowApp(MainWorkflow(SortedSeq(FreeSteps), arg),
                               subworkflows))
  /\ pc' = "built"
  /\ UNCHANGED <<namedSteps, subworkflows, outcome>>

\* faulty variant: the validator removes from the caller's disabled list the
\* names it has dealt with, and leaves it empty
Validate_consumesDisabled(disabledLists) ==
  /\ pc = "built"
  /\ \E disabled \in disabledLists :
       outcome' = [result |-> validate(App, disabled), disabled |-> <<>>]
  /\ pc' = "done"
  /\ UNCHANGED <<namedSteps, subworkflows, app>>

\* faulty variant: the validator empties the subworkflow list it was given
Validate_consumesSubworkflows(disabledLists) ==
  /\ pc = "built"
  /\ \E disabled \in disabledLists :
       outcome' = [result |-> validate(App, disabled), disabled |-> disabled]
  /\ pc' = "done"
  /\ app' = Some([App EXCEPT !.subworkflows = <<>>])
  /\ subworkflows' = <<>>
  /\ UNCHANGED namedSteps

Validate(disabledLists) ==
  /\ pc = "built"
  /\ \E disabled \in disabledLists :
       outcome' = [result |-> validate(App, disabled), disabled |-> disabled]
  /\ pc' = "done"
  /\ UNCHANGED <<namedSteps, subworkflows, app>>

\* validate() called a second time on the same application with the same
\* disabled list
ValidateAgain ==
  /\ pc = "done"
  /\ outcome' = [result |-> validate(App, outcome.disabled),
                 disabled |-> outcome.disabled]
  /\ pc' = "again"
  /\ UNCHANGED <<namedSteps, subworkflows, app>>

\* the caller pushes a step object onto the array it gave to stepsStep():
\* the StepsStep holds that same array. Any step object may be pushed, one
\* that another list holds and the StepsStep itself included; the objects
\* are pushed in the order of their creation
pushNested(maxLen) ==
  /\ pc = "steps"
  /\ \E x, y \in 1..Len(namedSteps) :
       /\ namedSteps[x].class = "StepsStep"
       /\ Len(namedSteps[x].steps) < maxLen
       /\ namedSteps[x].steps # <<>> =>
            namedSteps[x].steps[Len(namedSteps[x].steps)] <= y
       /\ namedSteps' = [namedSteps EXCEPT ![x].steps = Append(@, y)]
  /\ UNCHANGED <<subworkflows, app, outcome, pc>>

\* new WorkflowApp(new MainWorkflow(steps)) over any of the step objects
NewWorkflowAppShared ==
  /\ pc = "steps"
  /\ \E S \in (SUBSET (1..Len(namedSteps))) \ {{}} :
       app' = Some(WorkflowApp(MainWorkflow(SortedSeq(S), Undefined),
                               subworkflows))
  /\ pc' = "built"
  /\ UNCHANGED <<namedSteps, subworkflows, outcome>>

\* a caller runs the generator of one workflow of the application to its end
Traverse ==
  /\ pc = "built"
  /\ \E w \in 1..Len(Workflows(App)) :
       outcome' = [result |-> [kind |-> "return", name |-> "iterateStepsDepthFirst",
                               issues |-> <<>>],
                   disabled |-> <<>>,
                   workflow |-> w,
                   yielded |-> iterateStepsDepthFirst(Workflows(App)[w])]
  /\ pc' = "traversed"
  /\ UNCHANGED <<namedSteps, subworkflows, app>>

\* app.render(), on an application that was validated or not
Render ==
  /\ pc \in {"built", "done"}
  /\ outcome' = [result |-> outcome.result,
                 disabled |-> outcome.disabled,
                 rendered |-> render(App)]
  /\ pc' = "rendered"
  /\ UNCHANGED <<namedSteps, subworkflows, app>>

\* a caller asks one step object for its nested steps
NestedSteps ==
  /\ pc = "steps"
  /\ \E x \in 1..Len(namedSteps) :
       outcome' = [result |-> [kind |-> "return", name |-> "nestedSteps",
                               issues |-> <<>>],
                   disabled |-> <<>>,
                   step |-> x,
                   nested |-> nestedSteps(x)]
  /\ pc' = "nested"
  /\ UNCHANGED <<namedSteps, subworkflows, app>>

Init ==
  /\ namedSteps = <<>>
  /\ subworkflows = <<>>
  /\ app = Undefined
  /\ outcome = [result |-> [kind |-> "none", name |-> "", issues |-> <<>>],
                disabled |-> <<>>]
  /\ pc = "steps"

-----------------------------------------------------------------------------
(* Inputs *)

A == <<"a">>
B == <<"b">>
F == <<"f">>
G == <<"g">>
P == <<"p">>
Q == <<"q">>
R == <<"r">>
SysLog == <<"s", ".", "l">>

Param(name) == [name |-> name, default |-> Undefined]
ParamWithDefault(name, value) == [name |-> name, default |-> Some(value)]

CallInput(name, target, args) == [name |-> name, call |-> target, args |-> args]
SwitchInput(name, next, conditions) ==
  [name |-> name, next |-> next, conditions |-> conditions]
SubInput(name, params) == [name |-> name, params |-> params]

NoneDisabled == {<<>>}

\* a GWValue: what typeof gives for it, its JSON text, and its truthiness
GWValue(typeof, json, falsy) == [typeof |-> typeof, json |-> json, falsy |-> falsy]
Zero == GWValue("number", "0", TRUE)
One == GWValue("number", "1", FALSE)
False == GWValue("boolean", "false", TRUE)
EmptyText == GWValue("string", "\"\"", TRUE)
Null == GWValue("object", "null", TRUE)

-----------------------------------------------------------------------------
(* Spec: every builder operation and every nesting position, no check      *)
(* disabled                                                                 *)

AllCalls == {CallInput(A, SysLog, Undefined), CallInput(B, F, Some(<<P>>))}

AllSwitches == {SwitchInput(A, Some(end), <<[steps |-> <<>>]>>)}

AllSubs == {SubInput(F, Some(<<Param(P)>>))}

Next ==
  \/ assign(MaxSteps, {A})
  \/ call(MaxSteps, AllCalls)
  \/ switchStep(MaxSteps, AllSwitches)
  \/ tryExcept(MaxSteps, {B})
  \/ raise(MaxSteps, {B})
  \/ forStep(MaxSteps, {A})
  \/ stepsStep(MaxSteps, {B})
  \/ parallel(MaxSteps, {A})
  \/ returnStep(MaxSteps, {A})
  \/ NewSubworkflow(MaxSubworkflows, AllSubs)
  \/ NewWorkflowApp({Undefined})
  \/ Validate(NoneDisabled)

Spec == Init /\ [][Next]_vars

-----------------------------------------------------------------------------
(* SpecDisabled: applications with problems of every category, validated   *)
(* under every kind of disabled list                                        *)

DisabledCalls == {CallInput(A, F, Some(<<R>>))}

DisabledSwitches == {SwitchInput(A, Some(B), <<[next |-> Some(end)]>>)}

DisabledSubs == {SubInput(F, Some(<<Param(P)>>)), SubInput(EmptyString, Undefined)}

AllDisabled ==
  {<<>>, <<"duplicatedStepName">>, <<"bogus">>,
   <<"missingJumpTarget", "invalidWorkflowName">>,
   <<"wrongNumberOfCallArguments", "bogus", "duplicatedSubworkflowName",
     "wrongNumberOfCallArguments">>,
   <<"wrongNumberOfCallArguments", "missingJumpTarget",
     "duplicatedSubworkflowName", "duplicatedStepName", "invalidWorkflowName">>}

NextDisabled ==
  \/ assign(MaxDisabledSteps, {A})
  \/ call(MaxDisabledSteps, DisabledCalls)
  \/ switchStep(MaxDisabledSteps, DisabledSwitches)
  \/ NewSubworkflow(MaxDisabledSubworkflows, DisabledSubs)
  \/ NewWorkflowApp({Undefined})
  \/ Validate(AllDisabled)

SpecDisabled == Init /\ [][NextDisabled]_vars

-----------------------------------------------------------------------------
(* SpecNames: subworkflow names, with and without colliding step names      *)

NameSubs ==
  {SubInput(F, Undefined), SubInput(G, Undefined), SubInput(MainName, Undefined),
   SubInput(EmptyString, Undefined)}

NextNames ==
  \/ assign(MaxNameSteps, {A})
  \/ NewSubworkflow(MaxNameSubworkflows, NameSubs)
  \/ NewWorkflowApp({Undefined, Some(<<"x">>)})
  \/ Validate(NoneDisabled)

SpecNames == Init /\ [][NextNames]_vars

-----------------------------------------------------------------------------
(* SpecJump: call targets and switch jumps                                  *)

JumpCalls ==
  {CallInput(A, B, Undefined), CallInput(A, SysLog, Undefined),
   CallInput(B, F, Undefined), CallInput(A, end, Undefined)}

JumpSwitches ==
  {SwitchInput(B, Some(A), <<>>),
   SwitchInput(A, Some(end), <<[next |-> Some(B)]>>),
   SwitchInput(B, Some(EmptyString), <<[next |-> Some(F)]>>),
   SwitchInput(A, Undefined, <<[steps |-> <<>>], [next |-> Some(A)]>>),
   SwitchInput(B, Some(F), <<[next |-> Some(F)], [next |-> Undefined]>>)}

JumpSubs == {SubInput(F, Undefined)}

NextJump ==
  \/ assign(MaxJumpSteps, {B})
  \/ call(MaxJumpSteps, JumpCalls)
  \/ switchStep(MaxJumpSteps, JumpSwitches)
  \/ NewSubworkflow(MaxJumpSubworkflows, JumpSubs)
  \/ NewWorkflowApp({Undefined})
  \/ Validate(NoneDisabled)

SpecJump == Init /\ [][NextJump]_vars

-----------------------------------------------------------------------------
(* SpecArgs: calls of subworkflows with required and optional parameters    *)

ArgCalls ==
  {CallInput(A, F, Undefined), CallInput(A, F, Some(<<P>>)),
   CallInput(B, F, Some(<<Q, P>>)), CallInput(B, F, Some(<<R>>)),
   CallInput(A, G, Some(<<P, R>>))}

ArgSubs ==
  {SubInput(F, Some(<<Param(Q), Param(P)>>)),
   SubInput(F, Some(<<Param(P), ParamWithDefault(Q, One)>>)),
   SubInput(G, Undefined)}

NextArgs ==
  \/ call(MaxArgSteps, ArgCalls)
  \/ stepsStep(MaxArgSteps, {A})
  \/ NewSubworkflow(MaxArgSubworkflows, ArgSubs)
  \/ NewWorkflowApp({Undefined})
  \/ Validate(NoneDisabled)

SpecArgs == Init /\ [][NextArgs]_vars

-----------------------------------------------------------------------------
(* SpecOptional: parameters with defaults of every kind of value            *)

OptCalls ==
  {CallInput(A, F, Some(<<P>>)), CallInput(A, F, Some(<<P, Q>>)),
   CallInput(B, F, Some(<<Q>>)), CallInput(B, F, Some(<<P, R>>))}

OptSubs ==
  {SubInput(F, Some(<<Param(P), ParamWithDefault(Q, v)>>)) :
     v \in {Zero, One, False, EmptyText, Null}}

NextOptional ==
  \/ call(MaxOptSteps, OptCalls)
  \/ NewSubworkflow(MaxOptSubworkflows, OptSubs)
  \/ NewWorkflowApp({Undefined})
  \/ Validate(NoneDisabled)

SpecOptional == Init /\ [][NextOptional]_vars

-----------------------------------------------------------------------------
(* SpecTwice: validate() called twice on the same application               *)

TwiceCalls == {CallInput(A, F, Some(<<R>>))}

TwiceSubs == {SubInput(F, Some(<<Param(P)>>)), SubInput(EmptyString, Undefined)}

TwiceDisabled ==
  {<<>>, <<"duplicatedStepName">>, <<"missingJumpTarget", "bogus">>}

NextTwice ==
  \/ assign(MaxTwiceSteps, {A})
  \/ call(MaxTwiceSteps, TwiceCalls)
  \/ stepsStep(MaxTwiceSteps, {B})
  \/ NewSubworkflow(MaxTwiceSubworkflows, TwiceSubs)
  \/ NewWorkflowApp({Undefined})
  \/ Validate(TwiceDisabled)
  \/ ValidateAgain

SpecTwice == Init /\ [][NextTwice]_vars

-----------------------------------------------------------------------------
(* SpecOrder: issues of several checks, workflows and nesting depths        *)

\* the second call is a call of the subworkflow whose name is empty
OrderCalls ==
  {CallInput(A, G, Undefined), CallInput(B, EmptyString, Some(<<R>>))}

OrderSwitches == {SwitchInput(B, Some(G), <<>>)}

OrderSubs == {SubInput(EmptyString, Some(<<Param(P)>>))}

OrderDisabled == {<<>>, <<"wrongNumberOfCallArguments", "duplicatedStepName">>}

NextOrder ==
  \/ call(MaxOrderSteps, OrderCalls)
  \/ switchStep(MaxOrderSteps, OrderSwitches)
  \/ stepsStep(MaxOrderSteps, {A})
  \/ NewSubworkflow(MaxOrderSubworkflows, OrderSubs)
  \/ NewWorkflowApp({Undefined})
  \/ Validate(OrderDisabled)

SpecOrder == Init /\ [][NextOrder]_vars

-----------------------------------------------------------------------------
(* SpecCondition: switch conditions built from every shape of options       *)

ConditionOptions ==
  {[next |-> Some(A)], [steps |-> <<>>], [next |-> Some(B), steps |-> <<>>]}

ConditionSwitches ==
  {SwitchInput(B, Undefined, <<[next |-> Some(A), steps |-> <<>>]>>),
   SwitchInput(B, Undefined, <<[steps |-> <<>>]>>)}

NextCondition ==
  \/ assign(MaxCondSteps, {A})
  \/ call(MaxCondSteps, {CallInput(A, SysLog, Undefined)})
  \/ condition(ConditionOptions)
  \/ switchStep(MaxCondSteps, ConditionSwitches)
  \/ NewWorkflowApp({Undefined})
  \/ Validate(NoneDisabled)

SpecCondition == Init /\ [][NextCondition]_vars

-----------------------------------------------------------------------------
(* SpecTraversal: the traversal of workflows whose steps form a tree        *)

NextTraversal ==
  \/ assign(MaxTravSteps, {A})
  \/ tryExcept(MaxTravSteps, {B})
  \/ stepsStep(MaxTravSteps, {B})
  \/ NewSubworkflow(MaxTravSubworkflows, {SubInput(F, Undefined)})
  \/ NewWorkflowApp({Undefined})
  \/ Traverse

SpecTraversal == Init /\ [][NextTraversal]_vars

-----------------------------------------------------------------------------
(* SpecShared: step structures with shared step objects and cycles          *)

NextShared ==
  \/ assign(MaxSharedSteps, {A})
  \/ stepsStep(MaxSharedSteps, {B})
  \/ pushNested(MaxSharedList)
  \/ NewWorkflowAppShared
  \/ Traverse

SpecShared == Init /\ [][NextShared]_vars

-----------------------------------------------------------------------------
(* SpecDup: workflows that repeat several step names, several times; the     *)
(* steps blocks are built among the first steps                             *)

NextDup ==
  \/ assign(MaxDupSteps, {A, B})
  \/ stepsStep(MaxDupNested, {A})
  \/ NewSubworkflow(MaxDupSubworkflows, {SubInput(F, Undefined)})
  \/ NewWorkflowApp({Undefined})
  \/ Validate(NoneDisabled)

SpecDup == Init /\ [][NextDup]_vars

-----------------------------------------------------------------------------
(* SpecFlat: jumps to steps at other places of the tree                     *)

FlatCalls == {CallInput(B, B, Undefined), CallInput(G, A, Undefined)}

FlatSwitches ==
  {SwitchInput(R, Some(R), <<[steps |-> <<>>], [next |-> Some(B)]>>)}

NextFlat ==
  \/ assign(MaxFlatSteps, {A})
  \/ call(MaxFlatSteps, FlatCalls)
  \/ switchStep(MaxFlatSteps, FlatSwitches)
  \/ tryExcept(MaxFlatSteps, {Q})
  \/ forStep(MaxFlatSteps, {P})
  \/ stepsStep(MaxFlatSteps, {P})
  \/ parallel(MaxFlatSteps, {Q})
  \/ NewWorkflowApp({Undefined})
  \/ Validate(NoneDisabled)

SpecFlat == Init /\ [][NextFlat]_vars

-----------------------------------------------------------------------------
(* SpecCallee: calls of runtime functions, of steps and of Subworkflow       *)
(* objects, some of which are not added to the application                  *)

CalleeSubs ==
  {SubInput(F, Some(<<Param(P)>>)), SubInput(F, Undefined), SubInput(G, Undefined)}

CalleeCalls ==
  {CallInput(A, SysLog, Some(<<R>>)), CallInput(B, A, Some(<<R>>))}

CalleeObjectCalls == {[name |-> B, args |-> Undefined], [name |-> B, args |-> Some(<<R>>)]}

NextCallee ==
  \/ call(MaxCalleeSteps, CalleeCalls)
  \/ callSubworkflow(MaxCalleeSteps, CalleeObjectCalls)
  \/ NewCallee(MaxCalleeSubworkflows, CalleeSubs)
  \/ NewWorkflowAppOf
  \/ Validate(NoneDisabled)

SpecCallee == Init /\ [][NextCallee]_vars

-----------------------------------------------------------------------------
(* SpecNested: the nested steps of each class of step                        *)

NestedSwitches ==
  {SwitchInput(R, Some(A), <<[steps |-> <<>>], [next |-> Some(A)], [steps |-> <<>>]>>),
   SwitchInput(R, Undefined, <<[steps |-> <<>>]>>)}

NextNested ==
  \/ assign(MaxNestSteps, {A})
  \/ call(MaxNestSteps, {CallInput(A, SysLog, Undefined)})
  \/ raise(MaxNestSteps, {A})
  \/ returnStep(MaxNestSteps, {A})
  \/ switchStep(MaxNestSteps, NestedSwitches)
  \/ tryExcept(MaxNestSteps, {B})
  \/ forStep(MaxNestSteps, {B})
  \/ stepsStep(MaxNestSteps, {B})
  \/ NestedSteps

SpecNested == Init /\ [][NextNested]_vars

-----------------------------------------------------------------------------
(* SpecParallel: parallel steps, their nested steps and their traversal      *)

NextParallel ==
  \/ assign(MaxParSteps, {A})
  \/ stepsStep(MaxParSteps, {B})
  \/ parallel(MaxParSteps, {P})
  \/ NestedSteps
  \/ NewWorkflowApp({Undefined})
  \/ Traverse

SpecParallel == Init /\ [][NextParallel]_vars

-----------------------------------------------------------------------------
(* SpecLast: calls of a name that several subworkflows carry                 *)

LastCalls ==
  {CallInput(A, F, Undefined), CallInput(A, F, Some(<<P>>)),
   CallInput(B, F, Some(<<Q, R>>))}

LastSubs ==
  {SubInput(F, Some(<<Param(P)>>)), SubInput(F, Some(<<Param(Q), Param(R)>>)),
   SubInput(F, Undefined)}

NextLast ==
  \/ call(MaxLastSteps, LastCalls)
  \/ NewSubworkflow(MaxLastSubworkflows, LastSubs)
  \/ NewWorkflowApp({Undefined})
  \/ Validate(NoneDisabled)

SpecLast == Init /\ [][NextLast]_vars

-----------------------------------------------------------------------------
(* SpecParams: rendering of parameters with defaults of every kind of value  *)

ParamSubs ==
  {SubInput(F, Some(<<Param(P), ParamWithDefault(Q, v)>>)) :
     v \in {Zero, One, False, EmptyText, Null}}

NextParams ==
  \/ assign(MaxParamSteps, {A})
  \/ NewSubworkflow(MaxParamSubworkflows, ParamSubs)
  \/ NewWorkflowApp({Undefined, Some(R)})
  \/ Validate(NoneDisabled)
  \/ Render

SpecParams == Init /\ [][NextParams]_vars

-----------------------------------------------------------------------------
(* SpecRender: rendering of applications that were validated or not          *)

RenderSubs ==
  {SubInput(F, Undefined), SubInput(G, Some(<<Param(P)>>)),
   SubInput(MainName, Undefined)}

NextRender ==
  \/ assign(MaxRenderSteps, {A})
  \/ NewSubworkflow(MaxRenderSubworkflows, RenderSubs)
  \/ NewWorkflowApp({Undefined})
  \/ Validate(NoneDisabled)
  \/ Render

SpecRender == Init /\ [][NextRender]_vars

-----------------------------------------------------------------------------
(* SpecAlias: validation of workflows that hold one step object at several   *)
(* positions                                                                 *)

AliasCalls == {CallInput(A, F, Undefined), CallInput(A, G, Undefined)}

NextAlias ==
  \/ call(MaxAliasSteps, AliasCalls)
  \/ stepsStep(MaxAliasSteps, {B})
  \/ pushNested(MaxAliasList)
  \/ NewCallee(MaxAliasSubworkflows, {SubInput(F, Some(<<Param(P)>>))})
  \/ NewWorkflowAppShared
  \/ Validate(NoneDisabled)

SpecAlias == Init /\ [][NextAlias]_vars

-----------------------------------------------------------------------------
(* SpecRetry: try/except steps with retry policies next to call and switch   *)
(* steps                                                                     *)

RetryCalls == {CallInput(A, F, Some(<<R>>))}

RetrySwitches == {SwitchInput(R, Some(F), <<[next |-> Some(B)]>>)}

NextRetry ==
  \/ call(MaxRetrySteps, RetryCalls)
  \/ switchStep(MaxRetrySteps, RetrySwitches)
  \/ tryExceptRetry(MaxRetrySteps, {B})
  \/ NewCallee(MaxRetrySubworkflows, {SubInput(F, Undefined)})
  \/ NewWorkflowAppOf
  \/ Validate(NoneDisabled)

SpecRetry == Init /\ [][NextRetry]_vars

-----------------------------------------------------------------------------
(* What the claims speak of, stated on the tree itself *)

RECURSIVE Closure(_)
Closure(S) ==
  LET N == S \cup UNION {HeldBy(x) : x \in S}
  IN IF N = S THEN S ELSE Closure(N)

\* the step objects of a workflow, at any nesting depth
StepsIn(wf) == Closure(SeqRange(wf.steps))

NamesIn(wf) == {namedSteps[x].name : x \in StepsIn(wf)}

\* names carried by two distinct steps of the workflow
RepeatedNames(wf) ==
  {n \in NamesIn(wf) :
     \E x, y \in StepsIn(wf) :
       x # y /\ namedSteps[x].name = n /\ namedSteps[y].name = n}

SubNames(a) == {a.subworkflows[i].name : i \in 1..Len(a.subworkflows)}

Occurrences(a, n) == {i \in 1..Len(a.subworkflows) : a.subworkflows[i].name = n}

HasDot(str) == "." \in SeqRange(str)

RequiredNames(sub) ==
  IF sub.params = <<>> THEN {}
  ELSE {sub.params[1][i].name :
          i \in {j \in 1..Len(sub.params[1]) : sub.params[1][j].default = <<>>}}

OptionalNames(sub) ==
  IF sub.params = <<>> THEN {}
  ELSE {sub.params[1][i].name :
          i \in {j \in 1..Len(sub.params[1]) : sub.params[1][j].default # <<>>}}

SuppliedNames(step) == IF step.args = <<>> THEN {} ELSE SeqRange(step.args[1])

\* the next fields of a switch step that are present (not undefined)
PresentNexts(step) ==
  (IF step.next # <<>> THEN {<<0, step.next[1]>>} ELSE {})
    \cup {<<i, step.conditions[i].next[1]>> :
            i \in {j \in 1..Len(step.conditions) : step.conditions[j].next # <<>>}}

\* the sequences that list every member of S once
Enumerations(S) ==
  {L \in [1..Cardinality(S) -> S] : \A i, j \in DOMAIN L : i # j => L[i] # L[j]}

IssuesOfType(issues, type) == SelectSeq(issues, LAMBDA issue : issue.type = type)

Done == pc = "done"
Thrown == outcome.result.kind = "throw"
Returned == outcome.result.kind = "return"
Reported == outcome.result.issues
Enabled(check) == ~Includes(outcome.disabled, check)

ValidApp(a) ==
  /\ \A i \in 1..Len(a.subworkflows) :
       /\ a.subworkflows[i].name # EmptyString
       /\ a.subworkflows[i].name # MainName
       /\ Occurrences(a, a.subworkflows[i].name) = {i}
  /\ \A w \in 1..Len(Workflows(a)) :
       LET wf == Workflows(a)[w] IN
       /\ RepeatedNames(wf) = {}
       /\ \A x \in StepsIn(wf) :
            LET step == namedSteps[x] IN
            /\ step.class = "CallStep" =>
                 \/ HasDot(step.call)
                 \/ step.call \in NamesIn(wf)
                 \/ step.call \in SubNames(a)
            /\ step.class = "SwitchStep" =>
                 \A nx \in PresentNexts(step) : nx[2] \in NamesIn(wf) \cup {end}
            /\ step.class = "CallStep" =>
                 \A i \in Occurrences(a, step.call) :
                   /\ RequiredNames(a.subworkflows[i]) \subseteq SuppliedNames(step)
                   /\ SuppliedNames(step) \subseteq
                        RequiredNames(a.subworkflows[i])
                          \cup OptionalNames(a.subworkflows[i])

-----------------------------------------------------------------------------
(* Claims *)

\* C1: an application whose subworkflow names are non-empty, not "main" and
\* pairwise distinct, whose workflows repeat no step name, whose call targets
\* and switch jumps all resolve and whose subworkflow calls supply the
\* required parameters and nothing undeclared, validates without throwing
\* when no check is disabled.
C1_ValidAppReturns ==
  (Done /\ outcome.disabled = <<>> /\ ValidApp(App)) => Returned

C1_Witness ==
  /\ Done /\ outcome.disabled = <<>> /\ ValidApp(App) /\ Returned
  /\ Len(App.subworkflows) = 1
  /\ \E x \in StepsIn(App.mainWorkflow) :
       namedSteps[x].class = "CallStep" /\ namedSteps[x].call = F
  /\ \E x \in StepsIn(App.mainWorkflow) :
       namedSteps[x].class = "SwitchStep" /\ namedSteps[x].next = Some(end)

DuplicateMessages(a, w) ==
  {(IF w = 1 THEN <<"Duplicated step names in the main workflow: ">>
    ELSE <<"Duplicated step names in the subworkflow ">>
           \o Workflows(a)[w].name \o <<": ">>)
     \o Join(L, <<", ">>) : L \in Enumerations(RepeatedNames(Workflows(a)[w]))}

\* C5: a step name used once in each of two different workflows gives no
\* duplicatedStepName issue: every such issue is the issue of a workflow that
\* repeats a name inside itself and lists the names repeated inside it.
C5_NoCrossWorkflowDuplicates ==
  (Done /\ Enabled("duplicatedStepName")) =>
    LET dups == IssuesOfType(Reported, "duplicatedStepName") IN
    /\ (\A w \in 1..Len(Workflows(App)) : RepeatedNames(Workflows(App)[w]) = {})
         => dups = <<>>
    /\ \A i \in 1..Len(dups) :
         \E w \in 1..Len(Workflows(App)) :
           /\ RepeatedNames(Workflows(App)[w]) # {}
           /\ dups[i].message \in DuplicateMessages(App, w)

C5_Witness ==
  /\ Done /\ Enabled("duplicatedStepName")
  /\ Len(App.subworkflows) = 1
  /\ NamesIn(App.mainWorkflow) \cap NamesIn(App.subworkflows[1]) # {}
  /\ RepeatedNames(App.mainWorkflow) = {}
  /\ RepeatedNames(App.subworkflows[1]) = {}
  /\ IssuesOfType(Reported, "duplicatedStepName") = <<>>

\* the issue lists of the enabled checks, one after the other
IssuesOfEnabledChecks(a, disabled) ==
  (IF "invalidWorkflowName" \in SeqRange(disabled) THEN <<>>
   ELSE validateWorkflowNames(a))
  \o (IF "duplicatedStepName" \in SeqRange(disabled) THEN <<>>
      ELSE validateNoDuplicateStepNames(a))
  \o (IF "duplicatedSubworkflowName" \in SeqRange(disabled) THEN <<>>
      ELSE validateNoDuplicateSubworkflowNames(a))
  \o (IF "missingJumpTarget" \in SeqRange(disabled) THEN <<>>
      ELSE validateJumpTargets(a))
  \o (IF "wrongNumberOfCallArguments" \in SeqRange(disabled) THEN <<>>
      ELSE validateSubworkflowArguments(a))

\* C2: validate throws exactly when the concatenated issue lists of the
\* enabled checks are non-empty; it then throws one WorkflowValidationError
\* whose issues field is that whole list, and it returns normally when the
\* list is empty.
C2_ThrowsIffIssues ==
  Done =>
    LET all == IssuesOfEnabledChecks(App, outcome.disabled) IN
    /\ Thrown <=> all # <<>>
    /\ Thrown => /\ outcome.result.name = "WorkflowValidationError"
                 /\ outcome.result.issues = all
    /\ all = <<>> => Returned

\* an error that carries the issues of two checks while a third is disabled
C2_Witness ==
  /\ Done /\ Thrown
  /\ outcome.disabled = <<"duplicatedStepName">>
  /\ IssuesOfType(Reported, "invalidWorkflowName") # <<>>
  /\ IssuesOfType(Reported, "wrongNumberOfCallArguments") # <<>>
  /\ validateNoDuplicateStepNames(App) # <<>>

IsCheckName(str) == \E i \in 1..Len(validators) : validators[i] = str

\* C3: the issues of validate(app, D) are those of validate(app, []) without
\* the issues whose type is in D, in the same order; names of D that are no
\* check name change nothing; an application whose only problems are of
\* disabled categories validates cleanly.
C3_DisabledFiltersIssues ==
  Done =>
    LET full == validate(App, <<>>).issues
        kept == SelectSeq(full, LAMBDA issue : issue.type \notin SeqRange(outcome.disabled))
        known == SelectSeq(outcome.disabled, IsCheckName)
    IN /\ Reported = kept
       /\ kept = <<>> => Returned
       /\ validate(App, known) = outcome.result

\* the only problems are a missing jump target and an invalid subworkflow
\* name, both disabled: the call returns
C3_Witness ==
  /\ Done /\ Returned
  /\ outcome.disabled = <<"missingJumpTarget", "invalidWorkflowName">>
  /\ IssuesOfType(validate(App, <<>>).issues, "missingJumpTarget") # <<>>
  /\ IssuesOfType(validate(App, <<>>).issues, "invalidWorkflowName") # <<>>

\* the subworkflow names that occur more than once
DuplicatedSubNames(a) == {n \in SubNames(a) : Cardinality(Occurrences(a, n)) > 1}

\* C6: two subworkflows with the same name make validate throw with an issue
\* of type duplicatedSubworkflowName, whatever the step names are; there is
\* at most one such issue, and its message lists every name that occurs more
\* than once exactly once.
C6_DuplicateSubworkflowName ==
  (Done /\ Enabled("duplicatedSubworkflowName")) =>
    LET dups == IssuesOfType(Reported, "duplicatedSubworkflowName") IN
    /\ Len(dups) <= 1
    /\ DuplicatedSubNames(App) # {} => (Thrown /\ Len(dups) = 1)
    /\ \A i \in 1..Len(dups) :
         dups[i].message \in
           {<<"Duplicated subworkflow names: ">> \o Join(L, <<", ">>) :
              L \in Enumerations(DuplicatedSubNames(App))}

\* a name declared three times, in an application whose main workflow also
\* repeats a step name
C6_Witness ==
  /\ Done /\ Thrown /\ Enabled("duplicatedSubworkflowName")
  /\ \E n \in SubNames(App) : Cardinality(Occurrences(App, n)) = 3
  /\ RepeatedNames(App.mainWorkflow) # {}
  /\ Len(IssuesOfType(Reported, "duplicatedSubworkflowName")) = 1

\* C7: an issue of type invalidWorkflowName is reported exactly when some
\* subworkflow is named "main" or has the empty name; the main workflow never
\* causes it.
C7_InvalidWorkflowName ==
  (Done /\ Enabled("invalidWorkflowName")) =>
    (IssuesOfType(Reported, "invalidWorkflowName") # <<>>
       <=> \E i \in 1..Len(App.subworkflows) :
             App.subworkflows[i].name \in {MainName, EmptyString})

\* the main workflow is named "main", the subworkflows are well named, and
\* the error that is thrown for another reason carries no such issue
C7_Witness ==
  /\ Done /\ Thrown /\ Enabled("invalidWorkflowName")
  /\ App.mainWorkflow.name = MainName
  /\ App.subworkflows # <<>>
  /\ \A i \in 1..Len(App.subworkflows) :
       App.subworkflows[i].name \notin {MainName, EmptyString}
  /\ IssuesOfType(Reported, "invalidWorkflowName") = <<>>

WorkflowIndices(a) == 1..Len(Workflows(a))

Count(issues, messages) ==
  Cardinality({i \in 1..Len(issues) : issues[i].message \in messages})

\* the call steps of the application, each with the workflow that holds it
CallSlots(a) ==
  UNION {{<<w, x>> : x \in {y \in StepsIn(Workflows(a)[w]) :
                              namedSteps[y].class = "CallStep"}} :
           w \in WorkflowIndices(a)}

UnresolvedCall(a, slot) ==
  LET target == namedSteps[slot[2]].call IN
  /\ ~HasDot(target)
  /\ target \notin NamesIn(Workflows(a)[slot[1]])
  /\ target \notin SubNames(a)

CallMessageOf(slot) ==
  CallTargetMessage(namedSteps[slot[2]].call, namedSteps[slot[2]].name)

CallIssues ==
  SelectSeq(IssuesOfType(Reported, "missingJumpTarget"),
            LAMBDA issue : issue.message[1] = "Call target \"")

\* C8: the missingJumpTarget check produces an issue for a call step exactly
\* when its target holds no '.', names no step of the same workflow and names
\* no declared subworkflow; a dotted target is never flagged and "end" is
\* treated like any other call target.
C8_CallTargets ==
  (Done /\ Enabled("missingJumpTarget")) =>
    \A m \in {CallMessageOf(slot) : slot \in CallSlots(App)}
               \cup {CallIssues[i].message : i \in 1..Len(CallIssues)} :
      Count(CallIssues, {m}) =
        Cardinality({slot \in CallSlots(App) :
                       UnresolvedCall(App, slot) /\ CallMessageOf(slot) = m})

\* a call of "end" is flagged and a call of a dotted name is not
C8_Witness ==
  /\ Done /\ Enabled("missingJumpTarget")
  /\ \E slot \in CallSlots(App) :
       /\ namedSteps[slot[2]].call = end
       /\ Count(CallIssues, {CallMessageOf(slot)}) = 1
  /\ \E slot \in CallSlots(App) :
       /\ HasDot(namedSteps[slot[2]].call)
       /\ Count(CallIssues, {CallMessageOf(slot)}) = 0

\* the present next fields of the switch steps, each with its workflow
NextSlots(a) ==
  UNION {UNION {{<<w, x, nx>> : nx \in PresentNexts(namedSteps[x])} :
                  x \in {y \in StepsIn(Workflows(a)[w]) :
                           namedSteps[y].class = "SwitchStep"}} :
           w \in WorkflowIndices(a)}

UnresolvedNext(a, slot) ==
  slot[3][2] \notin NamesIn(Workflows(a)[slot[1]]) \cup {end}

NextMessageOf(slot) == NextTargetMessage(slot[3][2], namedSteps[slot[2]].name)

NextIssues ==
  SelectSeq(IssuesOfType(Reported, "missingJumpTarget"),
            LAMBDA issue : issue.message[1] = "Next target \"")

\* C9: every next field of a switch step that is present (any string,
\* the empty string included) gives exactly one missingJumpTarget issue when
\* it names neither a step of the same workflow nor "end", and none otherwise.
C9_PresentNextChecked ==
  (Done /\ Enabled("missingJumpTarget")) =>
    \A m \in {NextMessageOf(slot) : slot \in NextSlots(App)}
               \cup {NextIssues[i].message : i \in 1..Len(NextIssues)} :
      Count(NextIssues, {m}) =
        Cardinality({slot \in NextSlots(App) :
                       UnresolvedNext(App, slot) /\ NextMessageOf(slot) = m})

\* the call steps whose target is a declared subworkflow name
SubworkflowCallSlots(a) ==
  {slot \in CallSlots(a) : namedSteps[slot[2]].call \in SubNames(a)}

TargetOf(a, slot) ==
  a.subworkflows[CHOOSE i \in Occurrences(a, namedSteps[slot[2]].call) : TRUE]

MissingOf(a, slot) ==
  RequiredNames(TargetOf(a, slot)) \ SuppliedNames(namedSteps[slot[2]])

ExtraneousOf(a, slot) ==
  SuppliedNames(namedSteps[slot[2]])
    \ (RequiredNames(TargetOf(a, slot)) \cup OptionalNames(TargetOf(a, slot)))

ArgumentIssues == IssuesOfType(Reported, "wrongNumberOfCallArguments")

\* the parameter and argument names that occur in the application
ArgumentNames(a) ==
  UNION {RequiredNames(a.subworkflows[i]) \cup OptionalNames(a.subworkflows[i]) :
           i \in 1..Len(a.subworkflows)}
    \cup UNION {SuppliedNames(namedSteps[slot[2]]) : slot \in CallSlots(a)}

DistinctSubNames(a) ==
  \A i \in 1..Len(a.subworkflows) : Occurrences(a, a.subworkflows[i].name) = {i}

\* C10: a call step whose target is a declared subworkflow gives one
\* wrongNumberOfCallArguments issue listing all the required names it does
\* not supply, if there are any, and a separate one listing all the supplied
\* names outside required and optional, if there are any: 0, 1 or 2 issues,
\* 0 exactly when required <= supplied <= required + optional; a call without
\* args supplies nothing. Calls of other targets give none.
C10_CallArguments ==
  (Done /\ Enabled("wrongNumberOfCallArguments") /\ DistinctSubNames(App)) =>
    LET slots == SubworkflowCallSlots(App) IN
    /\ Len(ArgumentIssues) =
         Cardinality({slot \in slots : MissingOf(App, slot) # {}})
           + Cardinality({slot \in slots : ExtraneousOf(App, slot) # {}})
    /\ \A n \in {namedSteps[slot[2]].name : slot \in slots} :
         \A S \in (SUBSET ArgumentNames(App)) \ {{}} :
           /\ Count(ArgumentIssues,
                    {RequiredMessage(n, L) : L \in Enumerations(S)})
                = Cardinality({slot \in slots :
                                 /\ namedSteps[slot[2]].name = n
                                 /\ MissingOf(App, slot) = S})
           /\ Count(ArgumentIssues,
                    {ExtraMessage(n, L) : L \in Enumerations(S)})
                = Cardinality({slot \in slots :
                                 /\ namedSteps[slot[2]].name = n
                                 /\ ExtraneousOf(App, slot) = S})

\* a call without args that misses two required names, and a call that both
\* misses required names and supplies an undeclared one: three issues
C10_Witness ==
  /\ Done /\ Enabled("wrongNumberOfCallArguments") /\ DistinctSubNames(App)
  /\ Len(ArgumentIssues) = 3
  /\ \E slot \in SubworkflowCallSlots(App) :
       /\ namedSteps[slot[2]].args = Undefined
       /\ Cardinality(MissingOf(App, slot)) = 2
  /\ \E slot \in SubworkflowCallSlots(App) :
       MissingOf(App, slot) # {} /\ ExtraneousOf(App, slot) # {}

\* the parameters of a subworkflow declared without and with a default value
DeclaredWithoutDefault(sub) ==
  IF sub.params = <<>> THEN {}
  ELSE {p.name : p \in {q \in SeqRange(sub.params[1]) : q.default = <<>>}}

DeclaredWithDefault(sub) ==
  IF sub.params = <<>> THEN {}
  ELSE {p.name : p \in {q \in SeqRange(sub.params[1]) : q.default # <<>>}}

\* the issues whose message is about the call step named n
ArgumentIssuesAbout(n) ==
  SelectSeq(ArgumentIssues,
            LAMBDA issue :
              /\ Len(issue.message) >= Len(n) + 2
              /\ SubSeq(issue.message, 2, Len(n) + 1) = n
              /\ issue.message[Len(n) + 2] = "\": ")

CallPasses(a, slot) ==
  LET sub == TargetOf(a, slot)
      supplied == SuppliedNames(namedSteps[slot[2]])
  IN /\ DeclaredWithoutDefault(sub) \subseteq supplied
     /\ supplied \subseteq DeclaredWithoutDefault(sub) \cup DeclaredWithDefault(sub)

\* C11: a parameter declared without a default must be supplied and one
\* declared with a default, whatever its value (0, false, the empty string
\* and null included), may be supplied or omitted: the calls of a step name
\* give no wrongNumberOfCallArguments issue exactly when each of them
\* supplies every parameter without default and no undeclared name.
C11_RequiredAndOptional ==
  (Done /\ Enabled("wrongNumberOfCallArguments") /\ DistinctSubNames(App)) =>
    LET slots == SubworkflowCallSlots(App) IN
    /\ \A n \in {namedSteps[slot[2]].name : slot \in slots} :
         ArgumentIssuesAbout(n) = <<>>
           <=> \A slot \in slots :
                 namedSteps[slot[2]].name = n => CallPasses(App, slot)
    /\ (\A slot \in slots : CallPasses(App, slot)) => ArgumentIssues = <<>>

\* a subworkflow whose optional parameter has a falsy default, called once
\* without it and once with it: both calls pass
C11_Witness ==
  /\ Done /\ Returned /\ DistinctSubNames(App)
  /\ Len(App.subworkflows) = 1
  /\ \E p \in SeqRange(App.subworkflows[1].params[1]) :
       p.default # <<>> /\ p.default[1].falsy /\ p.name = Q
  /\ \E s1, s2 \in SubworkflowCallSlots(App) :
       /\ Q \notin SuppliedNames(namedSteps[s1[2]])
       /\ Q \in SuppliedNames(namedSteps[s2[2]])

Again == pc = "again"

ClaimedOrder ==
  <<"invalidWorkflowName", "duplicatedStepName", "duplicatedSubworkflowName",
    "missingJumpTarget", "wrongNumberOfCallArguments">>

Rank(type) == CHOOSE i \in 1..Len(ClaimedOrder) : ClaimedOrder[i] = type

RECURSIVE PreOrder(_)
\* reference flattening of a step list: a step, then the flattening of its
\* nested steps, then the following steps of the list
PreOrder(list) ==
  IF list = <<>> THEN <<>>
  ELSE <<Head(list)>> \o PreOrder(nestedSteps(Head(list))) \o PreOrder(Tail(list))

\* the steps of the application in the said order: the main workflow, then
\* the subworkflows as declared, each in pre-order
Positions(a) ==
  Concat([w \in 1..Len(Workflows(a)) |->
            LET ys == PreOrder(Workflows(a)[w].steps)
            IN [k \in 1..Len(ys) |-> <<w, ys[k]>>]])

MessageNames(message, n) ==
  /\ Len(message) >= Len(n) + 2
  /\ SubSeq(message, 2, Len(n) + 1) = n

\* the issue may come from the step at this position
IssueAbout(issue, a, pos) ==
  LET step == namedSteps[pos[2]] IN
  CASE issue.type = "duplicatedStepName" ->
         issue.message \in DuplicateMessages(a, pos[1])
    [] issue.type = "missingJumpTarget" ->
         \/ /\ step.class = "CallStep"
            /\ issue.message = CallTargetMessage(step.call, step.name)
         \/ /\ step.class = "SwitchStep"
            /\ \E nx \in PresentNexts(step) :
                 issue.message = NextTargetMessage(nx[2], step.name)
    [] issue.type = "wrongNumberOfCallArguments" ->
         step.class = "CallStep" /\ MessageNames(issue.message, step.name)
    [] OTHER -> FALSE

RECURSIVE FollowsPositions(_, _, _, _)
\* every issue of the list can be given a position, from k on, that is not
\* before the position of the issue before it (earliest position first)
FollowsPositions(issues, a, positions, k) ==
  IF issues = <<>> THEN TRUE
  ELSE LET later == {j \in k..Len(positions) :
                       IssueAbout(Head(issues), a, positions[j])}
       IN /\ later # {}
          /\ FollowsPositions(Tail(issues), a, positions,
                              CHOOSE j \in later : \A i \in later : j <= i)

Violates(a, check) ==
  CASE check = "invalidWorkflowName" ->
         \E n \in SubNames(a) : n \in {MainName, EmptyString}
    [] check = "duplicatedStepName" ->
         \E w \in WorkflowIndices(a) : RepeatedNames(Workflows(a)[w]) # {}
    [] check = "duplicatedSubworkflowName" -> DuplicatedSubNames(a) # {}
    [] check = "missingJumpTarget" ->
         \/ \E slot \in CallSlots(a) : UnresolvedCall(a, slot)
         \/ \E slot \in NextSlots(a) : UnresolvedNext(a, slot)
    [] check = "wrongNumberOfCallArguments" ->
         \E slot \in SubworkflowCallSlots(a) :
           MissingOf(a, slot) # {} \/ ExtraneousOf(a, slot) # {}

\* C15: every enabled check runs once and to its end, whatever the checks
\* before it found: the error that is thrown holds, for every enabled check
\* whose category the application violates, the issues of that check, each
\* check contributing its whole issue list once.
C15_NoShortCircuit ==
  Done =>
    \A check \in SeqRange(ClaimedOrder) :
      Enabled(check) =>
        /\ Violates(App, check) =>
             (Thrown /\ IssuesOfType(Reported, check) # <<>>)
        /\ IssuesOfType(Reported, check) = runValidator(check, App)

\* one error with a duplicated step name, a missing jump target and a wrong
\* call argument
C15_Witness ==
  /\ Done /\ Thrown /\ outcome.disabled = <<>>
  /\ Violates(App, "duplicatedStepName")
  /\ Violates(App, "missingJumpTarget")
  /\ Violates(App, "wrongNumberOfCallArguments")
  /\ IssuesOfType(Reported, "duplicatedStepName") # <<>>
  /\ IssuesOfType(Reported, "missingJumpTarget") # <<>>
  /\ IssuesOfType(Reported, "wrongNumberOfCallArguments") # <<>>

\* condition() has been called and outcome holds what it did
ConditionCalled == "options" \in DOMAIN outcome

\* C16: a call of condition() whose options hold both next and steps, or
\* neither of them, throws at once and gives no condition object; a condition
\* object comes from options that hold exactly one of the two.
C16_IllFormedConditionRejected ==
  ConditionCalled =>
    LET given == DOMAIN outcome.options \cap {"next", "steps"} IN
    /\ Cardinality(given) # 1 => outcome.result.kind = "throw"
    /\ outcome.result.kind = "return" => Cardinality(given) = 1

Traversed == pc = "traversed"

\* where a step stands in a sequence that holds it
IndexIn(ys, x) == CHOOSE i \in 1..Len(ys) : ys[i] = x

\* C17: on a workflow whose steps form a tree, the traversal yields every
\* step of the tree exactly once; a step comes before all its descendants,
\* its descendants come right after it and before its next sibling, siblings
\* come in the order of their list; the yielded sequence is the reference
\* pre-order flattening of the top-level list.
C17_PreOrderOnTrees ==
  Traversed =>
    LET wf == Workflows(App)[outcome.workflow]
        ys == outcome.yielded
    IN /\ SeqRange(ys) = StepsIn(wf)
       /\ Len(ys) = Cardinality(StepsIn(wf))
       /\ ys = PreOrder(wf.steps)
       /\ \A x \in StepsIn(wf) :
            LET below == Closure(HeldBy(x)) IN
            {IndexIn(ys, y) : y \in below}
              = (IndexIn(ys, x) + 1)..(IndexIn(ys, x) + Cardinality(below))
       /\ \A list \in {wf.steps} \cup {nestedSteps(x) : x \in StepsIn(wf)} :
            \A i, j \in 1..Len(list) :
              i < j => IndexIn(ys, list[i]) < IndexIn(ys, list[j])

\* a step with a nested step, followed by a sibling: the nested step is
\* yielded between the two
C17_Witness ==
  /\ Traversed
  /\ LET wf == Workflows(App)[outcome.workflow]
         ys == outcome.yielded
     IN /\ Len(wf.steps) >= 2
        /\ Len(ys) = 3
        /\ ys[1] = wf.steps[1]
        /\ ys[2] \in HeldBy(ys[1])
        /\ ys[3] = wf.steps[2]

\* C18: on any finite step structure, also when a step object is reachable
\* by two paths or lies on a cycle of nested step lists, the traversal ends
\* and yields no step object twice: the yielded sequence is not longer than
\* the number of step objects.
C18_EachObjectAtMostOnce ==
  Traversed =>
    LET ys == outcome.yielded IN
    /\ \A i, j \in 1..Len(ys) : i # j => ys[i] # ys[j]
    /\ Len(ys) <= Len(namedSteps)
    /\ SeqRange(ys) = StepsIn(Workflows(App)[outcome.workflow])

\* the traversal of a structure where a yielded step lies on a cycle and a
\* step without nested steps is held by the top-level list and by the list
\* of a yielded step
C18_Witness ==
  /\ Traversed
  /\ LET ys == outcome.yielded IN
     /\ \E x \in SeqRange(ys) : x \in Closure(HeldBy(x))
     /\ \E y \in SeqRange(App.mainWorkflow.steps) :
          /\ HeldBy(y) = {}
          /\ \E x \in SeqRange(ys) : y \in HeldBy(x)

\* the step names of a workflow in the order of the reference traversal
NamesInOrder(wf) ==
  LET ys == PreOrder(wf.steps) IN [i \in 1..Len(ys) |-> namedSteps[ys[i]].name]

\* where the name n occurs for the second time
SecondOccurrence(names, n) ==
  CHOOSE i \in 1..Len(names) :
    names[i] = n /\ Cardinality({j \in 1..(i - 1) : names[j] = n}) = 1

\* the repeated names of a workflow, each once, by second occurrence
RepeatedInOrder(wf) ==
  CHOOSE L \in Enumerations(RepeatedNames(wf)) :
    \A i, j \in 1..Len(L) :
      i < j => SecondOccurrence(NamesInOrder(wf), L[i])
                 < SecondOccurrence(NamesInOrder(wf), L[j])

DuplicateMessage(a, w) ==
  (IF w = 1 THEN <<"Duplicated step names in the main workflow: ">>
   ELSE <<"Duplicated step names in the subworkflow ">>
          \o Workflows(a)[w].name \o <<": ">>)
    \o Join(RepeatedInOrder(Workflows(a)[w]), <<", ">>)

\* C19: the duplicatedStepName check gives one issue for each workflow that
\* repeats a step name and none for the others (at most 1 + the number of
\* subworkflows); the message of a workflow's issue lists every repeated
\* name once, also a name that occurs three times or more, in the order in
\* which the second occurrence of each name is met in the traversal.
C19_OneIssuePerWorkflow ==
  (Done /\ Enabled("duplicatedStepName")) =>
    LET dups == IssuesOfType(Reported, "duplicatedStepName")
        repeating == SortedSeq({w \in WorkflowIndices(App) :
                                  RepeatedNames(Workflows(App)[w]) # {}})
    IN /\ Len(dups) <= 1 + Len(App.subworkflows)
       /\ Len(dups) = Len(repeating)
       /\ \A k \in 1..Len(dups) :
            dups[k].message = DuplicateMessage(App, repeating[k])

\* a workflow where b is met a second time before a is, and a a third time
C19_Witness ==
  /\ Done /\ Enabled("duplicatedStepName")
  /\ \E w \in WorkflowIndices(App) :
       LET names == NamesInOrder(Workflows(App)[w]) IN
       /\ names = <<A, B, B, A, A>>
       /\ HeldBy(Workflows(App)[w].steps[1]) # {}
       /\ SecondOccurrence(names, B) < SecondOccurrence(names, A)
       /\ Len(IssuesOfType(Reported, "duplicatedStepName")) = 1

InvalidNameIssues == IssuesOfType(Reported, "invalidWorkflowName")

\* C20: the number of invalidWorkflowName issues is the number of
\* subworkflows whose name is "main" or the empty string (two subworkflows
\* named "main" give two issues).
C20_IssuePerOffendingSubworkflow ==
  (Done /\ Enabled("invalidWorkflowName")) =>
    Len(InvalidNameIssues) =
      Cardinality({i \in 1..Len(App.subworkflows) :
                     App.subworkflows[i].name \in {MainName, EmptyString}})

\* C20 as amended: the invalidWorkflowName check gives one issue when some
\* subworkflow is named "main", however many are, and one more when some
\* subworkflow has the empty name: 0, 1 or 2 issues, the one about "main"
\* first.
C20_IssuePerOffendingName ==
  (Done /\ Enabled("invalidWorkflowName")) =>
    InvalidNameIssues =
      (IF MainName \in SubNames(App)
       THEN <<[type |-> "invalidWorkflowName",
               message |-> <<"Subworkflow can't be called \"main\"">>]>>
       ELSE <<>>)
      \o (IF EmptyString \in SubNames(App)
          THEN <<[type |-> "invalidWorkflowName",
                  message |-> <<"Subworkflow must have a non-empty name">>]>>
          ELSE <<>>)

\* two subworkflows named "main" and one without name: two issues
C20_Witness ==
  /\ Done /\ Enabled("invalidWorkflowName")
  /\ Cardinality(Occurrences(App, MainName)) = 2
  /\ Cardinality(Occurrences(App, EmptyString)) = 1
  /\ Len(InvalidNameIssues) = 2

\* the steps that hold x in one of their lists, and those above them
RECURSIVE Ancestors(_, _)
Ancestors(wf, x) ==
  LET parents == {y \in StepsIn(wf) : x \in HeldBy(y)}
  IN parents \cup UNION {Ancestors(wf, y) : y \in parents}

\* C21: a call target or a present next that names a step of the same
\* workflow gives no issue, wherever that step is: before or after the
\* referring step, deeper or higher in the tree, in another block, or the
\* referring step itself. The issues with the message of such a reference
\* all come from other references with that message.
C21_FlatNameResolution ==
  (Done /\ Enabled("missingJumpTarget")) =>
    /\ \A slot \in CallSlots(App) :
         namedSteps[slot[2]].call \in NamesIn(Workflows(App)[slot[1]]) =>
           Count(CallIssues, {CallMessageOf(slot)}) =
             Cardinality({other \in CallSlots(App) \ {slot} :
                            /\ UnresolvedCall(App, other)
                            /\ CallMessageOf(other) = CallMessageOf(slot)})
    /\ \A slot \in NextSlots(App) :
         slot[3][2] \in NamesIn(Workflows(App)[slot[1]]) =>
           Count(NextIssues, {NextMessageOf(slot)}) =
             Cardinality({other \in NextSlots(App) \ {slot} :
                            /\ UnresolvedNext(App, other)
                            /\ NextMessageOf(other) = NextMessageOf(slot)})
    /\ ((\A slot \in CallSlots(App) : ~UnresolvedCall(App, slot))
         /\ (\A slot \in NextSlots(App) : ~UnresolvedNext(App, slot)))
         => IssuesOfType(Reported, "missingJumpTarget") = <<>>

\* a call of its own name that lies in a nested block, and a switch created
\* before it whose condition jumps to that call: neither is reported
C21_Witness ==
  /\ Done /\ Enabled("missingJumpTarget")
  /\ IssuesOfType(Reported, "missingJumpTarget") = <<>>
  /\ \E x, y \in StepsIn(App.mainWorkflow) :
       /\ namedSteps[x].class = "CallStep"
       /\ namedSteps[x].call = namedSteps[x].name
       /\ Ancestors(App.mainWorkflow, x) # {}
       /\ namedSteps[y].class = "SwitchStep"
       /\ y \notin Ancestors(App.mainWorkflow, x)
       /\ \E nx \in PresentNexts(namedSteps[y]) : nx[2] = namedSteps[x].name

\* the Subworkflow objects that were built and not added to the application
NotAdded(a) ==
  {subworkflows[i] : i \in 1..Len(subworkflows)} \ SeqRange(a.subworkflows)

\* the call steps whose target may be such an object
CallsOfNotAdded(a) ==
  {slot \in CallSlots(a) :
     \E sub \in NotAdded(a) : sub.name = namedSteps[slot[2]].call}

\* the calls the arity check is said to leave alone
Exempt(a, slot) ==
  \/ HasDot(namedSteps[slot[2]].call)
  \/ namedSteps[slot[2]].call \in NamesIn(Workflows(a)[slot[1]])
  \/ slot \in CallsOfNotAdded(a)

\* C22: a call of a dotted name, of a step name or of a Subworkflow object
\* that was not added to the application gives no wrongNumberOfCallArguments
\* issue, whatever its arguments, and the call of the object that was not
\* added gives a missingJumpTarget issue.
C22_OnlyDeclaredTargets ==
  (Done /\ outcome.disabled = <<>> /\ DistinctSubNames(App)) =>
    \A slot \in CallSlots(App) :
      LET step == namedSteps[slot[2]] IN
      /\ (/\ Exempt(App, slot)
          /\ \A other \in CallSlots(App) :
               namedSteps[other[2]].name = step.name => Exempt(App, other))
           => ArgumentIssuesAbout(step.name) = <<>>
      /\ slot \in CallsOfNotAdded(App) =>
           Count(CallIssues, {CallMessageOf(slot)}) >= 1

\* C22 as amended: the arity check goes by the name alone. A call whose
\* target is not the name of a subworkflow of the application (a dotted
\* name, a step name, the name of an object that was not added) gives no
\* wrongNumberOfCallArguments issue, whatever its arguments; the call of an
\* object that was not added is reported as missingJumpTarget when its name
\* is, besides, dotless and not the name of a step of the calling workflow.
C22_OnlyDeclaredNames ==
  (Done /\ outcome.disabled = <<>> /\ DistinctSubNames(App)) =>
    /\ \A n \in {namedSteps[slot[2]].name : slot \in CallSlots(App)} :
         (\A slot \in CallSlots(App) :
            namedSteps[slot[2]].name = n
              => namedSteps[slot[2]].call \notin SubNames(App))
         => ArgumentIssuesAbout(n) = <<>>
    /\ Len(ArgumentIssues) =
         Cardinality({slot \in SubworkflowCallSlots(App) :
                        MissingOf(App, slot) # {}})
           + Cardinality({slot \in SubworkflowCallSlots(App) :
                            ExtraneousOf(App, slot) # {}})
    /\ \A slot \in CallsOfNotAdded(App) :
         UnresolvedCall(App, slot) =>
           Count(CallIssues, {CallMessageOf(slot)}) >= 1

\* calls with arguments of a dotted name, of a step name and of an object
\* that was not added, next to a subworkflow that was: the only issue is the
\* missing jump target
C22_Witness ==
  /\ Done /\ outcome.disabled = <<>> /\ DistinctSubNames(App)
  /\ Len(App.subworkflows) = 1
  /\ ArgumentIssues = <<>>
  /\ \E s1, s2 \in CallSlots(App) :
       /\ HasDot(namedSteps[s1[2]].call) /\ namedSteps[s1[2]].args # Undefined
       /\ s2 \in CallsOfNotAdded(App)
       /\ namedSteps[s2[2]].args # Undefined
       /\ namedSteps[s2[2]].call \notin SubNames(App)
       /\ Count(CallIssues, {CallMessageOf(s2)}) = 1

\* nestedSteps() has been called on a step and outcome holds what it gave
NestedAsked == "nested" \in DOMAIN outcome

RECURSIVE ConditionBodies(_)
\* the step lists of the conditions, one after the other
ConditionBodies(conds) ==
  IF conds = <<>> THEN <<>>
  ELSE conds[1].steps \o ConditionBodies(Tail(conds))

\* C23: nestedSteps() gives the empty list for Assign, Call, Raise and
\* Return steps; for a Switch step the step lists of its conditions, in the
\* order of the conditions, with or without a top-level next; for a TryExcept
\* step the try steps followed by the except steps; for a For step its body;
\* for a Steps step its own list.
C23_NestedStepsByClass ==
  NestedAsked =>
    LET s == namedSteps[outcome.step]
        got == outcome.nested
    IN /\ s.class \in {"AssignStep", "CallStep", "RaiseStep", "ReturnStep"}
            => got = <<>>
       /\ s.class = "SwitchStep" => got = ConditionBodies(s.conditions)
       /\ s.class = "TryExceptStep" =>
            /\ Len(got) = Len(s.trySteps) + Len(s.exceptSteps)
            /\ \A i \in 1..Len(s.trySteps) : got[i] = s.trySteps[i]
            /\ \A i \in 1..Len(s.exceptSteps) :
                 got[Len(s.trySteps) + i] = s.exceptSteps[i]
       /\ s.class \in {"ForStep", "StepsStep"} => got = s.steps

\* a try/except step whose except step was built before its try step
C23_Witness ==
  /\ NestedAsked
  /\ LET s == namedSteps[outcome.step] IN
     /\ s.class = "TryExceptStep"
     /\ Len(s.trySteps) = 1 /\ Len(s.exceptSteps) = 1
     /\ s.exceptSteps[1] < s.trySteps[1]
     /\ outcome.nested = <<s.trySteps[1], s.exceptSteps[1]>>

\* the steps held by the branches of a parallel step, branch after branch
BranchBodies(x) ==
  LET b == namedSteps[x].branches[1]
  IN Concat([i \in 1..Len(b) |-> nestedSteps(b[i])])

\* the parallel steps of the traversed workflow
ParallelIn(wf) == {x \in StepsIn(wf) : namedSteps[x].class = "Parallel"}

CheckOfMessage(message) ==
  CASE Head(message) \in {"Subworkflow can't be called \"main\"",
                          "Subworkflow must have a non-empty name"}
         -> "invalidWorkflowName"
    [] Head(message) \in {"Duplicated step names in the main workflow: ",
                          "Duplicated step names in the subworkflow "}
         -> "duplicatedStepName"
    [] Head(message) = "Duplicated subworkflow names: "
         -> "duplicatedSubworkflowName"
    [] Head(message) \in {"Call target \"", "Next target \""}
         -> "missingJumpTarget"
    [] Head(message) \in {"Required parameters not provided on call step \"",
                          "Extra arguments provided on call step \""}
         -> "wrongNumberOfCallArguments"
    [] OTHER -> "none"

\* C25: every issue of a thrown error has one of the five types
\* invalidWorkflowName, duplicatedStepName, duplicatedSubworkflowName,
\* missingJumpTarget and wrongNumberOfCallArguments, the type is the name of
\* the check that wrote the issue, and no issue has a type of the disabled
\* list.
C25_IssueTypes ==
  (Done /\ Thrown) =>
    \A i \in 1..Len(Reported) :
      /\ Reported[i].type \in {"invalidWorkflowName", "duplicatedStepName",
                               "duplicatedSubworkflowName", "missingJumpTarget",
                               "wrongNumberOfCallArguments"}
      /\ Reported[i].type = CheckOfMessage(Reported[i].message)
      /\ Reported[i].type \notin SeqRange(outcome.disabled)

\* two checks are disabled and would have found issues, two others report
C25_Witness ==
  /\ Done /\ Thrown
  /\ outcome.disabled = <<"missingJumpTarget", "invalidWorkflowName">>
  /\ validateJumpTargets(App) # <<>>
  /\ validateWorkflowNames(App) # <<>>
  /\ Cardinality({Reported[i].type : i \in 1..Len(Reported)}) >= 2

\* the last subworkflow, in declared order, that carries the name a call
\* step calls
LastNamed(a, slot) ==
  LET at == Occurrences(a, namedSteps[slot[2]].call)
  IN a.subworkflows[CHOOSE i \in at : \A j \in at : j <= i]

MissingAgainstLast(a, slot) ==
  RequiredNames(LastNamed(a, slot)) \ SuppliedNames(namedSteps[slot[2]])

ExtraneousAgainstLast(a, slot) ==
  SuppliedNames(namedSteps[slot[2]])
    \ (RequiredNames(LastNamed(a, slot)) \cup OptionalNames(LastNamed(a, slot)))

\* C26: when several subworkflows carry one name, a call of that name is
\* checked against the parameters of the last of them in declared order and
\* against no other: the issues are those of the missing and of the
\* extraneous names with regard to the last one, at most two for a call.
C26_LastDeclarationWins ==
  (Done /\ outcome.disabled = <<>>) =>
    LET slots == SubworkflowCallSlots(App) IN
    /\ Len(ArgumentIssues) =
         Cardinality({slot \in slots : MissingAgainstLast(App, slot) # {}})
           + Cardinality({slot \in slots : ExtraneousAgainstLast(App, slot) # {}})
    /\ Len(ArgumentIssues) <= 2 * Cardinality(slots)
    /\ \A n \in {namedSteps[slot[2]].name : slot \in slots} :
         \A S \in (SUBSET ArgumentNames(App)) \ {{}} :
           /\ Count(ArgumentIssues,
                    {RequiredMessage(n, L) : L \in Enumerations(S)})
                = Cardinality({slot \in slots :
                                 /\ namedSteps[slot[2]].name = n
                                 /\ MissingAgainstLast(App, slot) = S})
           /\ Count(ArgumentIssues,
                    {ExtraMessage(n, L) : L \in Enumerations(S)})
                = Cardinality({slot \in slots :
                                 /\ namedSteps[slot[2]].name = n
                                 /\ ExtraneousAgainstLast(App, slot) = S})

\* two subworkflows named f, the first with the required parameter p and the
\* last with q and r: a call that supplies p gets the two issues of the last
\* one, a call that supplies q and r gets none
C26_Witness ==
  /\ Done /\ outcome.disabled = <<>>
  /\ Len(App.subworkflows) = 2
  /\ App.subworkflows[1].name = App.subworkflows[2].name
  /\ RequiredNames(App.subworkflows[1]) = {P}
  /\ RequiredNames(App.subworkflows[2]) = {Q, R}
  /\ Len(ArgumentIssues) = 2
  /\ \E s1, s2 \in SubworkflowCallSlots(App) :
       /\ SuppliedNames(namedSteps[s1[2]]) = {P}
       /\ SuppliedNames(namedSteps[s2[2]]) = {Q, R}

Rendered == pc = "rendered"

\* the entry of the rendered object under a key
EntryOf(key) ==
  LET at == {i \in 1..Len(outcome.rendered) : outcome.rendered[i].key = key}
  IN outcome.rendered[CHOOSE i \in at : TRUE]

\* the last workflow, main workflow first, that carries a name
LastCarrying(a, n) ==
  LET at == {i \in 1..Len(Workflows(a)) : Workflows(a)[i].name = n}
  IN Workflows(a)[CHOOSE i \in at : \A j \in at : j <= i]

\* C27: the renderer and the validator agree on the optional parameters:
\* renderBody() writes a parameter as a mapping from its name to its default
\* exactly when the validator counts it as optional, and as a bare name
\* exactly when the validator counts it as required, whatever the default
\* is, 0, false, the empty string and null included.
C27_RendererAgreesWithValidator ==
  Rendered =>
    \A n \in SubNames(App) \ {MainName} :
      LET sub == LastCarrying(App, n)
          written == EntryOf(n).value.params
      IN IsDefined(sub.params) =>
           \A i \in 1..Len(written[1]) :
             /\ "default" \in DOMAIN written[1][i]
                  <=> Includes(optionalOf(sub), written[1][i].name)
             /\ "default" \notin DOMAIN written[1][i]
                  <=> Includes(requiredOf(sub), written[1][i].name)

\* C28: when validate(app) returned with no check disabled, render() gives
\* one entry for each workflow, 1 + the number of subworkflows, the entry
\* main holds the body of the main workflow and every subworkflow has its
\* own body under its name. Without that, a subworkflow named main and a
\* repeated subworkflow name take the place of the earlier entry of the
\* name: there is one entry for each name, with the body of the last
\* workflow of the name.
C28_OneEntryPerWorkflow ==
  Rendered =>
    /\ (Returned /\ outcome.disabled = <<>>) =>
         /\ Len(outcome.rendered) = 1 + Len(App.subworkflows)
         /\ EntryOf(MainName).value = renderBody(App.mainWorkflow)
         /\ \A i \in 1..Len(App.subworkflows) :
              EntryOf(App.subworkflows[i].name).value
                = renderBody(App.subworkflows[i])
    /\ Len(outcome.rendered)
         = Cardinality({Workflows(App)[i].name : i \in 1..Len(Workflows(App))})
    /\ \A i \in 1..Len(Workflows(App)) :
         EntryOf(Workflows(App)[i].name).value
           = renderBody(LastCarrying(App, Workflows(App)[i].name))
    /\ outcome.rendered[1].key = MainName

\* a validated application with two subworkflows gives three entries
C28_Witness ==
  /\ Rendered /\ Returned /\ outcome.disabled = <<>>
  /\ Len(App.subworkflows) = 2
  /\ Len(outcome.rendered) = 3
  /\ Len(App.mainWorkflow.steps) > 0

\* how many times a list holds a step object
TimesIn(list, x) == Cardinality({i \in 1..Len(list) : list[i] = x})

\* the number of positions of a workflow at which a step object stands
PositionsOf(wf, x) ==
  LET holders == SortedSeq(StepsIn(wf))
      Sum[k \in 0..Len(holders)] ==
        IF k = 0 THEN 0
        ELSE Sum[k - 1] + TimesIn(nestedSteps(holders[k]), x)
  IN TimesIn(wf.steps, x) + Sum[Len(holders)]

\* C29: a step object that stands at two positions of a workflow counts
\* once: there is a duplicatedStepName issue only when two distinct objects
\* of one workflow share a name, and the call target and the call arguments
\* of the object are reported once.
C29_SharedObjectCountsOnce ==
  (Done /\ outcome.disabled = <<>>) =>
    /\ IssuesOfType(Reported, "duplicatedStepName") # <<>>
         <=> \E w \in 1..Len(Workflows(App)) :
               RepeatedNames(Workflows(App)[w]) # {}
    /\ \A m \in {CallMessageOf(slot) : slot \in CallSlots(App)} :
         Count(CallIssues, {m}) =
           Cardinality({slot \in CallSlots(App) :
                          UnresolvedCall(App, slot) /\ CallMessageOf(slot) = m})
    /\ Len(ArgumentIssues) =
         Cardinality({slot \in SubworkflowCallSlots(App) :
                        MissingOf(App, slot) # {}})
           + Cardinality({slot \in SubworkflowCallSlots(App) :
                            ExtraneousOf(App, slot) # {}})

\* one call step object stands in the top-level list and twice in the list
\* of a steps block; its missing target is reported once and no name is
\* reported as duplicated
C29_Witness ==
  /\ Done /\ outcome.disabled = <<>>
  /\ IssuesOfType(Reported, "duplicatedStepName") = <<>>
  /\ \E slot \in CallSlots(App) :
       /\ PositionsOf(App.mainWorkflow, slot[2]) = 3
       /\ TimesIn(App.mainWorkflow.steps, slot[2]) = 1
       /\ UnresolvedCall(App, slot)
       /\ Count(CallIssues, {CallMessageOf(slot)}) = 1

\* the try/except steps of the application whose retry policy is a custom
\* one with a Subworkflow object that is no subworkflow of the application
UndeclaredRetryPredicates(a) ==
  {x \in UNION {StepsIn(Workflows(a)[w]) : w \in 1..Len(Workflows(a))} :
     /\ "retryPolicy" \in DOMAIN namedSteps[x]
     /\ namedSteps[x].retryPolicy.typeof = "object"
     /\ namedSteps[x].retryPolicy.predicate.typeof = "object"
     /\ namedSteps[x].retryPolicy.predicate.value.name \notin SubNames(a)}

\* C30: references are resolved in call targets and in the next fields of
\* switch steps and conditions only: the missingJumpTarget issues are those
\* of the unresolved call targets and of the unresolved next fields, the
\* wrongNumberOfCallArguments issues are those of the call steps, and a
\* try/except step gives no issue, whatever its retry policy, a custom
\* predicate that is no subworkflow of the application included.
C30_OnlyCallAndSwitchResolved ==
  (Done /\ outcome.disabled = <<>> /\ DistinctSubNames(App)) =>
    /\ Len(IssuesOfType(Reported, "missingJumpTarget"))
         = Cardinality({slot \in CallSlots(App) : UnresolvedCall(App, slot)})
           + Cardinality({slot \in NextSlots(App) : UnresolvedNext(App, slot)})
    /\ Len(ArgumentIssues) =
         Cardinality({slot \in SubworkflowCallSlots(App) :
                        MissingOf(App, slot) # {}})
           + Cardinality({slot \in SubworkflowCallSlots(App) :
                            ExtraneousOf(App, slot) # {}})
    /\ (CallSlots(App) = {} /\ NextSlots(App) = {}) =>
         /\ IssuesOfType(Reported, "missingJumpTarget") = <<>>
         /\ ArgumentIssues = <<>>

\* a try/except step whose custom retry predicate is a Subworkflow object
\* that was not added to the application: validate returns
C30_Witness ==
  /\ Done /\ outcome.disabled = <<>> /\ Returned
  /\ App.subworkflows = <<>>
  /\ UndeclaredRetryPredicates(App) # {}

====
